---------------------------- MODULE Spec2Model ----------------------------
(***************************************************************************)
(* Model of the TalentScout hiring-assistant conversation engine           *)
(* (src/chatbot.py), its validators (src/validators.py), the canned        *)
(* prompts (src/prompts.py) and the configuration (src/config.py).         *)
(*                                                                         *)
(* Text.  A Python str is a sequence of atoms.  Text that the code         *)
(* inspects (user input, AI replies) is spelled one character per atom.    *)
(* A fixed template of src/prompts.py that the code only concatenates and  *)
(* returns is one atom holding the template's words.  Concatenation is \o. *)
(***************************************************************************)
EXTENDS Integers, Sequences, FiniteSets, TLC

\* ------------------------------------------------------------------------
\* Python str primitives used by the engine and the validators
\* ------------------------------------------------------------------------

\* Characters str.strip() and str.split() treat as whitespace.
Whitespace == {" ", "\t", "\n"}

DigitChars == {"0", "1", "2", "3", "4", "5", "6", "7", "8", "9"}

UpperSeq ==
  <<"A","B","C","D","E","F","G","H","I","J","K","L","M",
    "N","O","P","Q","R","S","T","U","V","W","X","Y","Z">>

LowerSeq ==
  <<"a","b","c","d","e","f","g","h","i","j","k","l","m",
    "n","o","p","q","r","s","t","u","v","w","x","y","z">>

UpperChars == {UpperSeq[i] : i \in 1..26}

LowerChars == {LowerSeq[i] : i \in 1..26}

AlphaChars == UpperChars \cup LowerChars

MinOf(S) == CHOOSE x \in S : \A y \in S : x <= y

MaxOf(S) == CHOOSE x \in S : \A y \in S : x >= y

lower_char(c) ==
  IF c \in UpperChars
    THEN LowerSeq[CHOOSE i \in 1..26 : UpperSeq[i] = c]
    ELSE c

upper_char(c) ==
  IF c \in LowerChars
    THEN UpperSeq[CHOOSE i \in 1..26 : LowerSeq[i] = c]
    ELSE c

\* str.lower()
lower(s) == [i \in 1..Len(s) |-> lower_char(s[i])]

\* str.upper()
upper(s) == [i \in 1..Len(s) |-> upper_char(s[i])]

\* str.strip()
strip(s) ==
  LET keep == {i \in 1..Len(s) : s[i] \notin Whitespace}
  IN  IF keep = {} THEN <<>> ELSE SubSeq(s, MinOf(keep), MaxOf(keep))

\* sub in s
contains(sub, s) ==
  \E i \in 1..(Len(s) - Len(sub) + 1) : SubSeq(s, i, i + Len(sub) - 1) = sub

\* s.startswith(c) for a one-character c
startswith(s, c) == Len(s) >= 1 /\ s[1] = c

\* str.isdigit(): non-empty and every character a digit
isdigit(s) == Len(s) >= 1 /\ \A i \in 1..Len(s) : s[i] \in DigitChars

\* any(c.isalpha() for c in s)
any_alpha(s) == \E i \in 1..Len(s) : s[i] \in AlphaChars

\* s.replace(a, b) for one-character a and b
replace(s, a, b) == [i \in 1..Len(s) |-> IF s[i] = a THEN b ELSE s[i]]

\* s with its longest prefix of characters of set cs removed
\* (re.sub(r'^[cs]+', '', s))
drop_leading(s, cs) ==
  LET keep == {i \in 1..Len(s) : s[i] \notin cs}
  IN  IF keep = {} THEN <<>> ELSE SubSeq(s, MinOf(keep), Len(s))

\* s with every character of set cs removed (re.sub(r'[cs]', '', s))
RECURSIVE remove_chars(_, _)
remove_chars(s, cs) ==
  IF s = <<>> THEN <<>>
  ELSE IF s[1] \in cs THEN remove_chars(Tail(s), cs)
  ELSE <<s[1]>> \o remove_chars(Tail(s), cs)

\* str.split(): the maximal runs of non-whitespace characters
RECURSIVE split(_)
split(s) ==
  LET t == drop_leading(s, Whitespace)
  IN  IF t = <<>> THEN <<>>
      ELSE LET ws == {i \in 1..Len(t) : t[i] \in Whitespace}
               k  == IF ws = {} THEN Len(t) + 1 ELSE MinOf(ws)
           IN  <<SubSeq(t, 1, k - 1)>> \o split(SubSeq(t, k, Len(t)))

\* s.split(c) for a one-character separator c
RECURSIVE split_on(_, _)
split_on(s, c) ==
  LET at == {i \in 1..Len(s) : s[i] = c}
  IN  IF at = {} THEN <<s>>
      ELSE <<SubSeq(s, 1, MinOf(at) - 1)>>
             \o split_on(SubSeq(s, MinOf(at) + 1, Len(s)), c)

\* s.split(c, 1)[1]: what follows the first c (s holds one)
after_first(s, c) ==
  SubSeq(s, MinOf({i \in 1..Len(s) : s[i] = c}) + 1, Len(s))

\* the decimal value of a string of digits
RECURSIVE digits_value(_)
digits_value(s) ==
  IF s = <<>> THEN 0
  ELSE 10 * digits_value(SubSeq(s, 1, Len(s) - 1))
         + (CHOOSE d \in 0..9 : <<"0","1","2","3","4","5","6","7","8","9">>[d + 1] = s[Len(s)])

\* ------------------------------------------------------------------------
\* src/config.py
\* ------------------------------------------------------------------------

MAX_TECHNICAL_QUESTIONS == 7

MIN_TECHNICAL_QUESTIONS == 5

EXIT_KEYWORDS ==
  { <<"e","x","i","t">>, <<"q","u","i","t">>, <<"b","y","e">>,
    <<"g","o","o","d","b","y","e">>, <<"s","t","o","p">>, <<"e","n","d">>,
    <<"c","a","n","c","e","l">>, <<"l","e","a","v","e">>,
    <<"c","l","o","s","e">>, <<"t","e","r","m","i","n","a","t","e">> }

GREETING == "greeting"

COLLECT_NAME == "collect_name"

COLLECT_EMAIL == "collect_email"

COLLECT_PHONE == "collect_phone"

COLLECT_EXPERIENCE == "collect_experience"

COLLECT_POSITION == "collect_position"

COLLECT_LOCATION == "collect_location"

COLLECT_TECH_STACK == "collect_tech_stack"

ASK_TECHNICAL_QUESTIONS == "ask_technical_questions"

CONCLUSION == "conclusion"

ENDED == "ended"

\* The states in the order the class lists them.
ConversationState ==
  << GREETING, COLLECT_NAME, COLLECT_EMAIL, COLLECT_PHONE, COLLECT_EXPERIENCE,
     COLLECT_POSITION, COLLECT_LOCATION, COLLECT_TECH_STACK,
     ASK_TECHNICAL_QUESTIONS, CONCLUSION, ENDED >>

\* ------------------------------------------------------------------------
\* src/validators.py: each validator returns (is_valid, error_msg)
\* ------------------------------------------------------------------------

Valid == [is_valid |-> TRUE, error_msg |-> <<>>]

Invalid(msg) == [is_valid |-> FALSE, error_msg |-> msg]

EmailLocalChars == AlphaChars \cup DigitChars \cup {".", "_", "%", "+", "-"}

EmailDomainChars == AlphaChars \cup DigitChars \cup {".", "-"}

\* re.match(r'^[a-zA-Z0-9._%+-]+@[a-zA-Z0-9.-]+\.[a-zA-Z]{2,}$', s)
\* for an s that ends in no newline: s = local @ domain . tld
email_pattern(s) ==
  \E a \in 2..Len(s) : \E d \in (a + 2)..Len(s) :
    /\ s[a] = "@"
    /\ \A i \in 1..(a - 1) : s[i] \in EmailLocalChars
    /\ \A i \in (a + 1)..(d - 1) : s[i] \in EmailDomainChars
    /\ s[d] = "."
    /\ Len(s) - d >= 2
    /\ \A i \in (d + 1)..Len(s) : s[i] \in AlphaChars

validate_email(email) ==
  IF email = <<>> THEN Invalid(<<"Email address is required.">>)
  ELSE IF email_pattern(strip(email)) THEN Valid
  ELSE Invalid(<<"Please provide a valid email address (e.g., name@example.com).">>)

\* validate_phone taking at most 14 digits.
validate_phone_max_14(phone) ==
  IF phone = <<>> THEN Invalid(<<"Phone number is required.">>)
  ELSE LET cleaned == remove_chars(phone, Whitespace \cup {"-", "(", ")", "+"})
       IN  IF isdigit(cleaned) /\ 10 <= Len(cleaned) /\ Len(cleaned) < 15
             THEN Valid
             ELSE Invalid(<<"Please provide a valid phone number (10-15 digits).">>)

validate_phone(phone) ==
  IF phone = <<>> THEN Invalid(<<"Phone number is required.">>)
  ELSE LET cleaned == remove_chars(phone, Whitespace \cup {"-", "(", ")", "+"})
       IN  IF isdigit(cleaned) /\ 10 <= Len(cleaned) /\ Len(cleaned) <= 15
             THEN Valid
             ELSE Invalid(<<"Please provide a valid phone number (10-15 digits).">>)

\* float(s) for the decimal literals [sign] digits [. digits] and [sign] . digits,
\* surrounding whitespace allowed.  parses is FALSE where float raises
\* ValueError.  The magnitude is milli/1000 when exact, and lies strictly between
\* milli/1000 and (milli+1)/1000 otherwise; neg tells a leading '-'.
\* A magnitude of 10^6 or more is held as 10^6, inexact.
\* Exponents, underscores, inf and nan are not among the inputs.
float(s) ==
  LET t      == strip(s)
      signed == Len(t) >= 1 /\ t[1] \in {"+", "-"}
      body   == IF signed THEN Tail(t) ELSE t
      dots   == {i \in 1..Len(body) : body[i] = "."}
      whole  == IF dots = {} THEN body ELSE SubSeq(body, 1, MinOf(dots) - 1)
      frac   == IF dots = {} THEN <<>> ELSE SubSeq(body, MinOf(dots) + 1, Len(body))
      ok     == /\ Cardinality(dots) <= 1
                /\ \A i \in 1..Len(whole) : whole[i] \in DigitChars
                /\ \A i \in 1..Len(frac) : frac[i] \in DigitChars
                /\ Len(whole) + Len(frac) >= 1
      frac3  == SubSeq(frac \o <<"0", "0", "0">>, 1, 3)
      huge   == Len(drop_leading(whole, {"0"})) > 6
  IN  IF ~ok
        THEN [parses |-> FALSE, neg |-> FALSE, milli |-> 0, exact |-> TRUE]
      ELSE IF huge
        THEN [parses |-> TRUE, neg |-> signed /\ t[1] = "-",
              milli |-> 1000000000, exact |-> FALSE]
      ELSE [parses |-> TRUE, neg |-> signed /\ t[1] = "-",
            milli |-> 1000 * digits_value(whole) + digits_value(frac3),
            exact |-> \A i \in 4..Len(frac) : frac[i] = "0"]

validate_experience(experience) ==
  IF experience = <<>> THEN Invalid(<<"Years of experience is required.">>)
  ELSE LET years == float(experience)
           zero  == years.milli = 0 /\ years.exact
       IN  IF ~years.parses
             THEN Invalid(<<"Please provide a valid number for years of experience.">>)
           ELSE IF /\ (~years.neg \/ zero)
                   /\ (years.neg \/ years.milli < 50000
                         \/ (years.milli = 50000 /\ years.exact))
             THEN Valid
             ELSE Invalid(<<"Please provide a valid number of years (0-50).">>)

validate_name(name) ==
  IF name = <<>> \/ Len(strip(name)) < 2
    THEN Invalid(<<"Please provide your full name (at least 2 characters).">>)
    ELSE Valid

validate_non_empty(value, field_name) ==
  IF value = <<>> \/ Len(strip(value)) = 0
    THEN Invalid(<<field_name, " is required.">>)
    ELSE Valid


\* ------------------------------------------------------------------------
\* src/prompts.py: the canned texts
\* ------------------------------------------------------------------------

\* str(n) for a natural number n
RECURSIVE str_int(_)
str_int(n) ==
  IF n < 10 THEN << <<"0","1","2","3","4","5","6","7","8","9">>[n + 1] >>
  ELSE str_int(n \div 10) \o << <<"0","1","2","3","4","5","6","7","8","9">>[(n % 10) + 1] >>

get_info_collection_prompt(field_name, previous_response) ==
  CASE field_name = "email" ->
         <<"Thank you">>
           \o (IF previous_response # <<>>
                 THEN <<", ">> \o split(previous_response)[1]
                 ELSE <<>>)
           \o <<"! Could you please provide your email address?">>
    [] field_name = "phone" ->
         <<"Great! What's the best phone number to reach you?">>
    [] field_name = "experience" ->
         <<"Excellent! How many years of professional experience do you have in the tech industry?">>
    [] field_name = "position" ->
         <<"Thank you! What position(s) are you interested in applying for?">>
    [] field_name = "location" ->
         <<"Perfect! What is your current location (city/region)?">>
    [] field_name = "tech_stack" ->
         <<"Now, please tell me about your tech stack. What programming languages, frameworks, databases, and tools are you proficient in?">>
    [] OTHER -> <<"Please provide your ", field_name, ".">>

get_technical_question_intro(tech_stack) ==
  <<"Great! Thank you for sharing your information. \n\nBased on your tech stack (">>
    \o tech_stack
    \o <<") and experience level, I'm now going to ask you some tailored technical questions to assess your expertise. These questions are specifically designed for your background.\n\nPlease answer to the best of your ability. Let me prepare your first question...">>

get_technical_question_prompt(question, technology, question_number, total_questions) ==
  <<"**Question ">> \o str_int(question_number) \o <<" of ">>
    \o str_int(total_questions) \o <<"** (">> \o technology \o <<"):\n\n">>
    \o question

get_question_acknowledgment(remaining) ==
  IF remaining > 0
    THEN <<"Thank you for your answer! Let's move to the next question.">>
    ELSE <<"Thank you for your thoughtful answers!">>

get_conclusion_prompt(candidate_name, decision, message) ==
  IF contains(<<"S","C","R","E","E","N"," ","I","N">>, upper(decision))
    THEN <<"**Congratulations, ">> \o candidate_name \o <<"!**\n\n">> \o message
           \o <<"\n\nOur HR team will review your profile and contact you within 2-3 business days to schedule the next round of interviews.\n\nThank you for your time and thoughtful responses. We're excited about the possibility of having you join our team!\n\n**What happens next:**\nHR team reviews your screening results\nYou'll receive an email/call for the next interview round\nKeep an eye on your inbox!\n\nGood luck!">>
    ELSE <<"Thank you, ">> \o candidate_name \o <<".\n\n">> \o message
           \o <<"\n\nWe appreciate the time you took to complete this screening. While you haven't met the criteria for this particular role at this time, we encourage you to:\n- Continue building your skills\n- Apply for other positions that match your experience\n- Reapply in the future as you gain more experience\n\nWe wish you all the best in your job search!\n\n**The conversation has ended.** You may close this window.">>

get_fallback_prompt ==
  <<"I didn't quite understand that. Could you please rephrase or provide the requested information? \nI'm here to help you through the screening process.">>

get_exit_confirmation ==
  <<"I understand you'd like to end the session. Thank you for your time! \nIf you'd like to complete the screening process later, feel free to start a new conversation. \nHave a great day!">>

\* ------------------------------------------------------------------------
\* src/chatbot.py: HiringAssistantChatbot
\*
\* The object is a record self = [state, candidate_data, technical_questions,
\* current_question_index].  A method is an operator from the object before
\* the call (and the call's arguments and the outcome of each
\* chat.send_message it makes) to: the object after the call, the value
\* returned, the AI call sites reached in order, the values assigned to
\* self.state in order, and whether an exception left the method.
\* ------------------------------------------------------------------------

\* One chat.send_message call: a reply text, or an exception.
AIFailure == [ok |-> FALSE, text |-> <<>>]

AIReply(text) == [ok |-> TRUE, text |-> text]

\* A Python dict is a function on the keys it holds.
EmptyDict == [k \in {} |-> <<>>]

dict_set(d, k, v) == [x \in (DOMAIN d) \cup {k} |-> IF x = k THEN v ELSE d[x]]

dict_get(d, k, default) == IF k \in DOMAIN d THEN d[k] ELSE default

\* One chat.send_message call as the method saw it: the call site and the outcome.
Call(site, ai) == [site |-> site, ok |-> ai.ok, text |-> ai.text]

Return(self, ret, calls, path) ==
  [self |-> self, ret |-> ret, calls |-> calls, path |-> path, raised |-> FALSE]

Raise(self, calls) ==
  [self |-> self, ret |-> <<>>, calls |-> calls, path |-> <<>>, raised |-> TRUE]

\* check_exit_intent comparing without message.lower().
check_exit_intent_case_sensitive(message) ==
  \E keyword \in EXIT_KEYWORDS : contains(keyword, strip(message))

check_exit_intent(message) ==
  LET message_lower == strip(lower(message))
  IN  \E keyword \in EXIT_KEYWORDS : contains(keyword, message_lower)

\* chat.send_message is not guarded here: its exception leaves the method
\* before self.state is assigned.
get_greeting(self, ai) ==
  IF ~ai.ok
    THEN Raise(self, <<Call("greeting", ai)>>)
    ELSE Return([self EXCEPT !.state = COLLECT_NAME], ai.text,
                <<Call("greeting", ai)>>, <<COLLECT_NAME>>)

\* _collect_name advancing past the e-mail question.
_collect_name_skips_email(self, name) ==
  LET v == validate_name(name)
  IN  IF ~v.is_valid THEN Return(self, v.error_msg, <<>>, <<>>)
      ELSE Return([self EXCEPT !.candidate_data = dict_set(@, "name", strip(name)),
                               !.state = COLLECT_PHONE],
                  get_info_collection_prompt("phone", <<>>), <<>>, <<COLLECT_PHONE>>)

_collect_name(self, name) ==
  LET v == validate_name(name)
  IN  IF ~v.is_valid THEN Return(self, v.error_msg, <<>>, <<>>)
      ELSE Return([self EXCEPT !.candidate_data = dict_set(@, "name", strip(name)),
                               !.state = COLLECT_EMAIL],
                  get_info_collection_prompt("email", name), <<>>, <<COLLECT_EMAIL>>)

\* _collect_email storing the input before it validates it.
_collect_email_stores_first(self, email) ==
  LET v      == validate_email(email)
      stored == [self EXCEPT !.candidate_data = dict_set(@, "email", strip(email))]
  IN  IF ~v.is_valid THEN Return(stored, v.error_msg, <<>>, <<>>)
      ELSE Return([stored EXCEPT !.state = COLLECT_PHONE],
                  get_info_collection_prompt("phone", <<>>), <<>>, <<COLLECT_PHONE>>)

_collect_email(self, email) ==
  LET v == validate_email(email)
  IN  IF ~v.is_valid THEN Return(self, v.error_msg, <<>>, <<>>)
      ELSE Return([self EXCEPT !.candidate_data = dict_set(@, "email", strip(email)),
                               !.state = COLLECT_PHONE],
                  get_info_collection_prompt("phone", <<>>), <<>>, <<COLLECT_PHONE>>)

\* _collect_phone storing the input as typed, without strip().
_collect_phone_stores_raw(self, phone) ==
  LET v == validate_phone(phone)
  IN  IF ~v.is_valid THEN Return(self, v.error_msg, <<>>, <<>>)
      ELSE Return([self EXCEPT !.candidate_data = dict_set(@, "phone", phone),
                               !.state = COLLECT_EXPERIENCE],
                  get_info_collection_prompt("experience", <<>>), <<>>,
                  <<COLLECT_EXPERIENCE>>)

_collect_phone(self, phone) ==
  LET v == validate_phone(phone)
  IN  IF ~v.is_valid THEN Return(self, v.error_msg, <<>>, <<>>)
      ELSE Return([self EXCEPT !.candidate_data = dict_set(@, "phone", strip(phone)),
                               !.state = COLLECT_EXPERIENCE],
                  get_info_collection_prompt("experience", <<>>), <<>>,
                  <<COLLECT_EXPERIENCE>>)

_collect_experience(self, experience) ==
  LET v == validate_experience(experience)
  IN  IF ~v.is_valid THEN Return(self, v.error_msg, <<>>, <<>>)
      ELSE Return([self EXCEPT !.candidate_data =
                                  dict_set(@, "experience", strip(experience)),
                               !.state = COLLECT_POSITION],
                  get_info_collection_prompt("position", <<>>), <<>>,
                  <<COLLECT_POSITION>>)

_collect_position(self, position) ==
  LET v == validate_non_empty(position, "Position")
  IN  IF ~v.is_valid THEN Return(self, v.error_msg, <<>>, <<>>)
      ELSE IF Len(strip(position)) < 3
        THEN Return(self,
               <<"Please provide a valid position title (e.g., Software Engineer, Data Scientist, etc.).">>,
               <<>>, <<>>)
      ELSE Return([self EXCEPT !.candidate_data =
                                  dict_set(@, "position", strip(position)),
                               !.state = COLLECT_LOCATION],
                  get_info_collection_prompt("location", <<>>), <<>>,
                  <<COLLECT_LOCATION>>)

_collect_location(self, location) ==
  LET v == validate_non_empty(location, "Location")
  IN  IF ~v.is_valid THEN Return(self, v.error_msg, <<>>, <<>>)
      ELSE IF Len(strip(location)) < 2
        THEN Return(self,
               <<"Please provide a valid location (city, state, or country).">>,
               <<>>, <<>>)
      ELSE Return([self EXCEPT !.candidate_data =
                                  dict_set(@, "location", strip(location)),
                               !.state = COLLECT_TECH_STACK],
                  get_info_collection_prompt("tech_stack", <<>>), <<>>,
                  <<COLLECT_TECH_STACK>>)

\* re.sub(r'^[\d\.\)\-\*\s]+', '', line).strip()
question_text(line) ==
  strip(drop_leading(line, DigitChars \cup {".", ")", "-", "*"} \cup Whitespace))

\* The loop over generated_text.split('\n') that fills questions_list.
RECURSIVE parse_questions(_)
parse_questions(lines) ==
  IF lines = <<>> THEN <<>>
  ELSE LET line == strip(Head(lines))
           rest == parse_questions(Tail(lines))
       IN  IF /\ line # <<>>
              /\ (line[1] \in DigitChars \/ startswith(line, "-") \/ startswith(line, "*"))
              /\ question_text(line) # <<>>
              /\ Len(question_text(line)) > 10
             THEN <<question_text(line)>> \o rest
             ELSE rest

FALLBACK_QUESTIONS ==
  << [technology |-> <<"General">>,
      question |-> <<"Describe your most challenging technical project and how you solved it.">>],
     [technology |-> <<"General">>,
      question |-> <<"How do you approach learning new technologies?">>],
     [technology |-> <<"General">>,
      question |-> <<"Explain your experience with the technologies in your tech stack.">>],
     [technology |-> <<"General">>,
      question |-> <<"How do you ensure code quality in your projects?">>],
     [technology |-> <<"General">>,
      question |-> <<"Describe a time when you had to debug a complex issue.">>] >>

\* _generate_questions starting the interview with however few questions the
\* reply held.
_generate_questions_no_minimum(self, tech_stack, ai) ==
  LET questions_list == parse_questions(split_on(ai.text, "\n"))
      qs == IF ~ai.ok THEN FALLBACK_QUESTIONS
            ELSE [i \in 1..MinOf({MAX_TECHNICAL_QUESTIONS, Len(questions_list)}) |->
                    [technology |-> <<"AI-Generated">>, question |-> questions_list[i]]]
  IN  Return([self EXCEPT
                !.technical_questions = qs,
                !.candidate_data =
                   dict_set(dict_set(@, "technical_qa", <<>>), "evaluation_scores", <<>>),
                !.state = ASK_TECHNICAL_QUESTIONS,
                !.current_question_index = 0],
             get_technical_question_intro(tech_stack)
               \o <<"\n\n**Type 'ready' when you're ready for the first question.**">>,
             <<Call("questions", ai)>>, <<ASK_TECHNICAL_QUESTIONS>>)

\* _generate_questions asking for the tech stack again when the AI call fails.
_generate_questions_no_fallback(self, tech_stack, ai) ==
  LET questions_list == parse_questions(split_on(ai.text, "\n"))
  IN  IF ~ai.ok \/ Len(questions_list) < MIN_TECHNICAL_QUESTIONS
        THEN Return(self,
               <<"I'm having trouble generating enough questions. Could you please re-enter your tech stack with more details?">>,
               <<Call("questions", ai)>>, <<>>)
        ELSE Return([self EXCEPT
                       !.technical_questions =
                          [i \in 1..MinOf({MAX_TECHNICAL_QUESTIONS, Len(questions_list)}) |->
                             [technology |-> <<"AI-Generated">>,
                              question |-> questions_list[i]]],
                       !.candidate_data =
                          dict_set(dict_set(@, "technical_qa", <<>>), "evaluation_scores", <<>>),
                       !.state = ASK_TECHNICAL_QUESTIONS,
                       !.current_question_index = 0],
                    get_technical_question_intro(tech_stack)
                      \o <<"\n\n**Type 'ready' when you're ready for the first question.**">>,
                    <<Call("questions", ai)>>, <<ASK_TECHNICAL_QUESTIONS>>)

\* _generate_questions storing every parsed question, however many.
_generate_questions_no_truncation(self, tech_stack, ai) ==
  LET questions_list == parse_questions(split_on(ai.text, "\n"))
      started(qs)    ==
        Return([self EXCEPT
                  !.technical_questions = qs,
                  !.candidate_data =
                     dict_set(dict_set(@, "technical_qa", <<>>), "evaluation_scores", <<>>),
                  !.state = ASK_TECHNICAL_QUESTIONS,
                  !.current_question_index = 0],
               get_technical_question_intro(tech_stack)
                 \o <<"\n\n**Type 'ready' when you're ready for the first question.**">>,
               <<Call("questions", ai)>>, <<ASK_TECHNICAL_QUESTIONS>>)
  IN  IF ~ai.ok
        THEN started(FALLBACK_QUESTIONS)
      ELSE IF Len(questions_list) < MIN_TECHNICAL_QUESTIONS
        THEN Return(self,
               <<"I'm having trouble generating enough questions. Could you please re-enter your tech stack with more details?">>,
               <<Call("questions", ai)>>, <<>>)
      ELSE started([i \in 1..Len(questions_list) |->
                      [technology |-> <<"AI-Generated">>,
                       question |-> questions_list[i]]])

\* The second half of _collect_tech_stack, from the AI call on: self already
\* holds the accepted tech stack.
_generate_questions(self, tech_stack, ai) ==
  LET num_questions  == MAX_TECHNICAL_QUESTIONS
      questions_list == parse_questions(split_on(ai.text, "\n"))
      started(qs)    ==
        Return([self EXCEPT
                  !.technical_questions = qs,
                  !.candidate_data =
                     dict_set(dict_set(@, "technical_qa", <<>>), "evaluation_scores", <<>>),
                  !.state = ASK_TECHNICAL_QUESTIONS,
                  !.current_question_index = 0],
               get_technical_question_intro(tech_stack)
                 \o <<"\n\n**Type 'ready' when you're ready for the first question.**">>,
               <<Call("questions", ai)>>, <<ASK_TECHNICAL_QUESTIONS>>)
  IN  IF ~ai.ok
        THEN started(FALLBACK_QUESTIONS)
      ELSE IF Len(questions_list) < MIN_TECHNICAL_QUESTIONS
        THEN Return(self,
               <<"I'm having trouble generating enough questions. Could you please re-enter your tech stack with more details?">>,
               <<Call("questions", ai)>>, <<>>)
      ELSE started([i \in 1..MinOf({num_questions, Len(questions_list)}) |->
                      [technology |-> <<"AI-Generated">>,
                       question |-> questions_list[i]]])

\* _collect_tech_stack without the test for a single short token.
_collect_tech_stack_no_token_test(self, tech_stack, ai) ==
  LET v                == validate_non_empty(tech_stack, "Tech stack")
      tech_stack_clean == strip(tech_stack)
  IN  IF ~v.is_valid THEN Return(self, v.error_msg, <<>>, <<>>)
      ELSE IF Len(tech_stack_clean) < 3
        THEN Return(self,
               <<"Please provide a valid tech stack with at least one technology (e.g., Python, JavaScript, React, etc.).">>,
               <<>>, <<>>)
      ELSE IF isdigit(tech_stack_clean) \/ Len(split(tech_stack_clean)) = 0
        THEN Return(self,
               <<"Please provide a valid tech stack listing the technologies you work with (e.g., Python, Django, PostgreSQL).">>,
               <<>>, <<>>)
      ELSE IF ~any_alpha(tech_stack_clean)
        THEN Return(self,
               <<"Please provide a valid tech stack (e.g., Python, JavaScript, React, AWS, etc.).">>,
               <<>>, <<>>)
      ELSE _generate_questions(
             [self EXCEPT !.candidate_data = dict_set(@, "tech_stack", tech_stack_clean)],
             tech_stack, ai)

\* _collect_tech_stack sending the tech stack to the AI before it tests it.
_collect_tech_stack_asks_ai_first(self, tech_stack, ai) ==
  LET v                == validate_non_empty(tech_stack, "Tech stack")
      tech_stack_clean == strip(tech_stack)
      words            == split(replace(tech_stack_clean, ",", " "))
      asked            == <<Call("questions", ai)>>
  IN  IF ~v.is_valid THEN Return(self, v.error_msg, asked, <<>>)
      ELSE IF Len(tech_stack_clean) < 3
        THEN Return(self,
               <<"Please provide a valid tech stack with at least one technology (e.g., Python, JavaScript, React, etc.).">>,
               asked, <<>>)
      ELSE IF isdigit(tech_stack_clean) \/ Len(split(tech_stack_clean)) = 0
        THEN Return(self,
               <<"Please provide a valid tech stack listing the technologies you work with (e.g., Python, Django, PostgreSQL).">>,
               asked, <<>>)
      ELSE IF Len(words) = 1 /\ Len(words[1]) <= 2
        THEN Return(self,
               <<"Please provide your complete tech stack. List the programming languages, frameworks, and tools you're proficient in.">>,
               asked, <<>>)
      ELSE IF ~any_alpha(tech_stack_clean)
        THEN Return(self,
               <<"Please provide a valid tech stack (e.g., Python, JavaScript, React, AWS, etc.).">>,
               asked, <<>>)
      ELSE _generate_questions(
             [self EXCEPT !.candidate_data = dict_set(@, "tech_stack", tech_stack_clean)],
             tech_stack, ai)

_collect_tech_stack(self, tech_stack, ai) ==
  LET v                == validate_non_empty(tech_stack, "Tech stack")
      tech_stack_clean == strip(tech_stack)
      words            == split(replace(tech_stack_clean, ",", " "))
  IN  IF ~v.is_valid THEN Return(self, v.error_msg, <<>>, <<>>)
      ELSE IF Len(tech_stack_clean) < 3
        THEN Return(self,
               <<"Please provide a valid tech stack with at least one technology (e.g., Python, JavaScript, React, etc.).">>,
               <<>>, <<>>)
      ELSE IF isdigit(tech_stack_clean) \/ Len(split(tech_stack_clean)) = 0
        THEN Return(self,
               <<"Please provide a valid tech stack listing the technologies you work with (e.g., Python, Django, PostgreSQL).">>,
               <<>>, <<>>)
      ELSE IF Len(words) = 1 /\ Len(words[1]) <= 2
        THEN Return(self,
               <<"Please provide your complete tech stack. List the programming languages, frameworks, and tools you're proficient in.">>,
               <<>>, <<>>)
      ELSE IF ~any_alpha(tech_stack_clean)
        THEN Return(self,
               <<"Please provide a valid tech stack (e.g., Python, JavaScript, React, AWS, etc.).">>,
               <<>>, <<>>)
      ELSE _generate_questions(
             [self EXCEPT !.candidate_data = dict_set(@, "tech_stack", tech_stack_clean)],
             tech_stack, ai)

_show_current_question(self) ==
  IF self.current_question_index < Len(self.technical_questions)
    THEN LET current_q == self.technical_questions[self.current_question_index + 1]
         IN  Return(self,
                    get_technical_question_prompt(
                      current_q.question, current_q.technology,
                      self.current_question_index + 1, Len(self.technical_questions)),
                    <<>>, <<>>)
    ELSE Return(self, <<"No more questions.">>, <<>>, <<>>)

\* The loop of _conclude_conversation over decision_text.split('\n'): each
\* line carrying a label assigns that label's variable.
RECURSIVE parse_decision(_, _)
parse_decision(lines, acc) ==
  IF lines = <<>> THEN acc
  ELSE LET line == strip(Head(lines))
           up   == upper(line)
       IN  parse_decision(Tail(lines),
             IF contains(<<"D","E","C","I","S","I","O","N",":">>, up)
               THEN [acc EXCEPT !.decision = strip(after_first(line, ":"))]
             ELSE IF contains(<<"R","E","A","S","O","N","I","N","G",":">>, up)
               THEN [acc EXCEPT !.reasoning = strip(after_first(line, ":"))]
             ELSE IF contains(<<"M","E","S","S","A","G","E",":">>, up)
               THEN [acc EXCEPT !.message = strip(after_first(line, ":"))]
             ELSE acc)

_conclude_conversation(self, ai) ==
  LET candidate_name == dict_get(self.candidate_data, "name", <<"there">>)
      parsed ==
        parse_decision(split_on(ai.text, "\n"),
          [decision  |-> <<"S","C","R","E","E","N"," ","O","U","T">>,
           reasoning |-> <<>>,
           message   |-> <<"Thank you for your time.">>])
  IN  IF ai.ok
        THEN Return([self EXCEPT
                       !.candidate_data =
                          dict_set(dict_set(@, "screening_decision", parsed.decision),
                                   "screening_reasoning", parsed.reasoning),
                       !.state = ENDED],
                    get_conclusion_prompt(candidate_name, parsed.decision, parsed.message),
                    <<Call("decision", ai)>>, <<ENDED>>)
        ELSE Return([self EXCEPT !.state = ENDED],
                    <<"Thank you, ">> \o candidate_name
                      \o <<", for completing the screening!\n\nOur HR team will review your responses and contact you if you're selected for the next round.\n\nWe appreciate your time and interest in our company. Good luck!">>,
                    <<Call("decision", ai)>>, <<ENDED>>)

\* The loop of _handle_technical_question over evaluation_text.split('\n').
RECURSIVE parse_evaluation(_, _)
parse_evaluation(lines, acc) ==
  IF lines = <<>> THEN acc
  ELSE LET line == Head(lines)
           up   == upper(line)
       IN  parse_evaluation(Tail(lines),
             IF contains(<<"S","C","O","R","E",":">>, up)
               THEN [acc EXCEPT !.score = strip(after_first(line, ":"))]
             ELSE IF contains(<<"A","C","K","N","O","W","L","E","D","G","M","E","N","T",":">>, up)
               THEN [acc EXCEPT !.acknowledgment = strip(after_first(line, ":"))]
             ELSE acc)

\* float(qa['score'].split('/')[0]) of the summary loop; parses is FALSE where
\* the try block's except passes (no 'score' key, or no number).
score_val(qa) ==
  IF "score" \in DOMAIN qa
    THEN float(split_on(qa.score, "/")[1])
    ELSE [parses |-> FALSE, neg |-> FALSE, milli |-> 0, exact |-> TRUE]

\* total_score of the summary loop, in thousandths
RECURSIVE total_score(_)
total_score(technical_qa) ==
  IF technical_qa = <<>> THEN 0
  ELSE LET f == score_val(Head(technical_qa))
       IN  (IF f.parses THEN (IF f.neg THEN 0 - f.milli ELSE f.milli) ELSE 0)
             + total_score(Tail(technical_qa))

RECURSIVE scored_count(_)
scored_count(technical_qa) ==
  IF technical_qa = <<>> THEN 0
  ELSE (IF score_val(Head(technical_qa)).parses THEN 1 ELSE 0)
         + scored_count(Tail(technical_qa))

\* f"{num/den:.1f}" for den > 0: one decimal, ties to the even digit (the
\* quotients that tie here are multiples of 1/4, which a double holds exactly).
format_1f(num, den) ==
  LET a      == IF num < 0 THEN 0 - num ELSE num
      q      == (10 * a) \div den
      r      == (10 * a) % den
      tenths == IF 2 * r > den \/ (2 * r = den /\ q % 2 = 1) THEN q + 1 ELSE q
  IN  (IF num < 0 THEN <<"-">> ELSE <<>>)
        \o str_int(tenths \div 10) \o <<".">> \o str_int(tenths % 10)

\* The summary block of the last answer's success path.
interview_summary(technical_qa) ==
  <<"\n\n**Interview Summary:**\n">>
    \o <<"- Questions answered: ">> \o str_int(Len(technical_qa)) \o <<"\n">>
    \o (IF scored_count(technical_qa) > 0
          THEN <<"- Average score: ">>
                 \o format_1f(total_score(technical_qa), 1000 * scored_count(technical_qa))
                 \o <<"/10\n">>
          ELSE <<>>)
    \o <<"\n">>

\* _handle_technical_question that asks on after the last answer instead of
\* concluding.
_handle_technical_question_never_concludes(self, answer, ai, ai2) ==
  IF self.current_question_index >= Len(self.technical_questions)
    THEN Raise(self, <<>>)
  ELSE
  LET current_q == self.technical_questions[self.current_question_index + 1]
      entry == [technology |-> current_q.technology,
                question   |-> current_q.question,
                answer     |-> strip(answer)]
      answered ==
        [self EXCEPT
           !.candidate_data = dict_set(@, "technical_qa", Append(@["technical_qa"], entry)),
           !.current_question_index = @ + 1]
  IN  Return(answered, _show_current_question(answered).ret,
             <<Call("evaluation", ai)>>, <<>>)

\* _handle_technical_question recording no entry for an answer whose
\* evaluation failed.
_handle_technical_question_drops_unevaluated(self, answer, ai, ai2) ==
  IF \/ self.current_question_index >= Len(self.technical_questions)
     \/ "tech_stack" \notin DOMAIN self.candidate_data
     \/ "technical_qa" \notin DOMAIN self.candidate_data
    THEN Raise(self, <<>>)
  ELSE
  LET current_q == self.technical_questions[self.current_question_index + 1]
      parsed ==
        parse_evaluation(split_on(ai.text, "\n"),
          [score |-> <<"N","/","A">>,
           acknowledgment |-> <<"Thank you for your answer.">>])
      entry ==
        IF ai.ok
          THEN [technology |-> current_q.technology,
                question   |-> current_q.question,
                answer     |-> strip(answer),
                evaluation |-> ai.text,
                score      |-> parsed.score]
          ELSE [technology |-> current_q.technology,
                question   |-> current_q.question,
                answer     |-> strip(answer)]
      answered ==
        [self EXCEPT
           !.candidate_data =
              IF ai.ok THEN dict_set(@, "technical_qa", Append(@["technical_qa"], entry))
              ELSE @,
           !.current_question_index = @ + 1]
      more == answered.current_question_index < Len(answered.technical_questions)
      next_question == answered.technical_questions[answered.current_question_index + 1]
      question_prompt ==
        get_technical_question_prompt(
          next_question.question, next_question.technology,
          answered.current_question_index + 1, Len(answered.technical_questions))
      remaining == Len(answered.technical_questions) - answered.current_question_index
      concluded == _conclude_conversation([answered EXCEPT !.state = CONCLUSION], ai2)
  IN  IF ai.ok
        THEN IF more
               THEN Return(answered, parsed.acknowledgment \o <<"\n\n">> \o question_prompt,
                           <<Call("evaluation", ai)>>, <<>>)
               ELSE Return(concluded.self,
                           parsed.acknowledgment
                             \o interview_summary(answered.candidate_data["technical_qa"])
                             \o concluded.ret,
                           <<Call("evaluation", ai)>> \o concluded.calls,
                           <<CONCLUSION>> \o concluded.path)
        ELSE IF more
               THEN Return(answered,
                           get_question_acknowledgment(remaining) \o <<"\n\n">> \o question_prompt,
                           <<Call("evaluation", ai)>>, <<>>)
               ELSE Return(concluded.self, concluded.ret,
                           <<Call("evaluation", ai)>> \o concluded.calls,
                           <<CONCLUSION>> \o concluded.path)

\* _handle_technical_question staying at the question whose answer could not
\* be evaluated.
_handle_technical_question_repeats_on_failure(self, answer, ai, ai2) ==
  IF \/ self.current_question_index >= Len(self.technical_questions)
     \/ "tech_stack" \notin DOMAIN self.candidate_data
     \/ "technical_qa" \notin DOMAIN self.candidate_data
    THEN Raise(self, <<>>)
  ELSE
  LET current_q == self.technical_questions[self.current_question_index + 1]
      parsed ==
        parse_evaluation(split_on(ai.text, "\n"),
          [score |-> <<"N","/","A">>,
           acknowledgment |-> <<"Thank you for your answer.">>])
      entry ==
        IF ai.ok
          THEN [technology |-> current_q.technology,
                question   |-> current_q.question,
                answer     |-> strip(answer),
                evaluation |-> ai.text,
                score      |-> parsed.score]
          ELSE [technology |-> current_q.technology,
                question   |-> current_q.question,
                answer     |-> strip(answer)]
      answered ==
        [self EXCEPT
           !.candidate_data = dict_set(@, "technical_qa", Append(@["technical_qa"], entry)),
           !.current_question_index = IF ai.ok THEN @ + 1 ELSE @]
      more == answered.current_question_index < Len(answered.technical_questions)
      next_question == answered.technical_questions[answered.current_question_index + 1]
      question_prompt ==
        get_technical_question_prompt(
          next_question.question, next_question.technology,
          answered.current_question_index + 1, Len(answered.technical_questions))
      remaining == Len(answered.technical_questions) - answered.current_question_index
      concluded == _conclude_conversation([answered EXCEPT !.state = CONCLUSION], ai2)
  IN  IF ai.ok
        THEN IF more
               THEN Return(answered, parsed.acknowledgment \o <<"\n\n">> \o question_prompt,
                           <<Call("evaluation", ai)>>, <<>>)
               ELSE Return(concluded.self,
                           parsed.acknowledgment
                             \o interview_summary(answered.candidate_data["technical_qa"])
                             \o concluded.ret,
                           <<Call("evaluation", ai)>> \o concluded.calls,
                           <<CONCLUSION>> \o concluded.path)
        ELSE IF more
               THEN Return(answered,
                           get_question_acknowledgment(remaining) \o <<"\n\n">> \o question_prompt,
                           <<Call("evaluation", ai)>>, <<>>)
               ELSE Return(concluded.self, concluded.ret,
                           <<Call("evaluation", ai)>> \o concluded.calls,
                           <<CONCLUSION>> \o concluded.path)

\* ai is the outcome of the evaluation call, ai2 of the decision call that
\* the inline conclusion makes.
_handle_technical_question(self, answer, ai, ai2) ==
  IF \/ self.current_question_index >= Len(self.technical_questions)
     \/ "tech_stack" \notin DOMAIN self.candidate_data
     \/ "technical_qa" \notin DOMAIN self.candidate_data
    THEN Raise(self, <<>>)
  ELSE
  LET current_q == self.technical_questions[self.current_question_index + 1]
      parsed ==
        parse_evaluation(split_on(ai.text, "\n"),
          [score |-> <<"N","/","A">>,
           acknowledgment |-> <<"Thank you for your answer.">>])
      entry ==
        IF ai.ok
          THEN [technology |-> current_q.technology,
                question   |-> current_q.question,
                answer     |-> strip(answer),
                evaluation |-> ai.text,
                score      |-> parsed.score]
          ELSE [technology |-> current_q.technology,
                question   |-> current_q.question,
                answer     |-> strip(answer)]
      answered ==
        [self EXCEPT
           !.candidate_data = dict_set(@, "technical_qa", Append(@["technical_qa"], entry)),
           !.current_question_index = @ + 1]
      more == answered.current_question_index < Len(answered.technical_questions)
      next_question == answered.technical_questions[answered.current_question_index + 1]
      question_prompt ==
        get_technical_question_prompt(
          next_question.question, next_question.technology,
          answered.current_question_index + 1, Len(answered.technical_questions))
      remaining == Len(answered.technical_questions) - answered.current_question_index
      concluded == _conclude_conversation([answered EXCEPT !.state = CONCLUSION], ai2)
  IN  IF ai.ok
        THEN IF more
               THEN Return(answered, parsed.acknowledgment \o <<"\n\n">> \o question_prompt,
                           <<Call("evaluation", ai)>>, <<>>)
               ELSE Return(concluded.self,
                           parsed.acknowledgment
                             \o interview_summary(answered.candidate_data["technical_qa"])
                             \o concluded.ret,
                           <<Call("evaluation", ai)>> \o concluded.calls,
                           <<CONCLUSION>> \o concluded.path)
        ELSE IF more
               THEN Return(answered,
                           get_question_acknowledgment(remaining) \o <<"\n\n">> \o question_prompt,
                           <<Call("evaluation", ai)>>, <<>>)
               ELSE Return(concluded.self, concluded.ret,
                           <<Call("evaluation", ai)>> \o concluded.calls,
                           <<CONCLUSION>> \o concluded.path)

READY_WORDS ==
  { <<"o","k">>, <<"y","e","s">>, <<"r","e","a","d","y">>, <<"s","u","r","e">>,
    <<"c","o","n","t","i","n","u","e">>, <<"l","e","t","'","s"," ","g","o">>,
    <<"p","r","o","c","e","e","d">> }

\* first_question_requested comparing the input as typed.
first_question_requested_exact(self, user_message) ==
  /\ self.current_question_index = 0
  /\ user_message \in READY_WORDS

\* The test of process_message that shows the first question instead of
\* taking the input as an answer.
first_question_requested(self, user_message) ==
  /\ self.current_question_index = 0
  /\ lower(strip(user_message)) \in READY_WORDS

\* process_message without the branch for ENDED: the input falls through to
\* the final else.
process_message_no_ended_branch(self, user_message, ai, ai2) ==
  IF check_exit_intent(user_message)
    THEN Return([self EXCEPT !.state = ENDED], get_exit_confirmation, <<>>, <<ENDED>>)
  ELSE IF self.state = GREETING THEN get_greeting(self, ai)
  ELSE IF self.state = COLLECT_NAME THEN _collect_name(self, user_message)
  ELSE IF self.state = COLLECT_EMAIL THEN _collect_email(self, user_message)
  ELSE IF self.state = COLLECT_PHONE THEN _collect_phone(self, user_message)
  ELSE IF self.state = COLLECT_EXPERIENCE THEN _collect_experience(self, user_message)
  ELSE IF self.state = COLLECT_POSITION THEN _collect_position(self, user_message)
  ELSE IF self.state = COLLECT_LOCATION THEN _collect_location(self, user_message)
  ELSE IF self.state = COLLECT_TECH_STACK THEN _collect_tech_stack(self, user_message, ai)
  ELSE IF self.state = ASK_TECHNICAL_QUESTIONS
    THEN IF first_question_requested(self, user_message)
           THEN _show_current_question(self)
           ELSE _handle_technical_question(self, user_message, ai, ai2)
  ELSE IF self.state = CONCLUSION THEN _conclude_conversation(self, ai)
  ELSE Return(self, get_fallback_prompt, <<>>, <<>>)

process_message(self, user_message, ai, ai2) ==
  IF check_exit_intent(user_message)
    THEN Return([self EXCEPT !.state = ENDED], get_exit_confirmation, <<>>, <<ENDED>>)
  ELSE IF self.state = GREETING THEN get_greeting(self, ai)
  ELSE IF self.state = COLLECT_NAME THEN _collect_name(self, user_message)
  ELSE IF self.state = COLLECT_EMAIL THEN _collect_email(self, user_message)
  ELSE IF self.state = COLLECT_PHONE THEN _collect_phone(self, user_message)
  ELSE IF self.state = COLLECT_EXPERIENCE THEN _collect_experience(self, user_message)
  ELSE IF self.state = COLLECT_POSITION THEN _collect_position(self, user_message)
  ELSE IF self.state = COLLECT_LOCATION THEN _collect_location(self, user_message)
  ELSE IF self.state = COLLECT_TECH_STACK THEN _collect_tech_stack(self, user_message, ai)
  ELSE IF self.state = ASK_TECHNICAL_QUESTIONS
    THEN IF first_question_requested(self, user_message)
           THEN _show_current_question(self)
           ELSE _handle_technical_question(self, user_message, ai, ai2)
  ELSE IF self.state = CONCLUSION THEN _conclude_conversation(self, ai)
  ELSE IF self.state = ENDED
    THEN Return(self,
           <<"The conversation has ended. Please refresh to start a new screening session.">>,
           <<>>, <<>>)
  ELSE Return(self, get_fallback_prompt, <<>>, <<>>)

\* reset leaving candidate_data as it was.
reset_keeps_candidate_data(self) ==
  Return([state |-> GREETING, candidate_data |-> self.candidate_data,
          technical_questions |-> <<>>, current_question_index |-> 0],
         <<>>, <<>>, <<GREETING>>)

reset(self) ==
  Return([state |-> GREETING, candidate_data |-> EmptyDict,
          technical_questions |-> <<>>, current_question_index |-> 0],
         <<>>, <<>>, <<GREETING>>)

\* self.candidate_data.copy()
get_candidate_data(self) ==
  Return(self, self.candidate_data, <<>>, <<>>)

\* is_conversation_complete answering for CONCLUSION instead of ENDED.
is_conversation_complete_at_conclusion(self) ==
  Return(self, self.state = CONCLUSION, <<>>, <<>>)

is_conversation_complete(self) ==
  Return(self, self.state = ENDED, <<>>, <<>>)

\* ------------------------------------------------------------------------
\* src/data_handler.py and the save step of src/app.py
\* ------------------------------------------------------------------------

REQUIRED_FIELDS ==
  {"name", "email", "phone", "experience", "position", "location", "tech_stack"}

\* The directory CANDIDATES_DIR is a sequence of files, in the order
\* os.listdir gives them; no two have the same filename.  A file is its
\* name, whether its text is a whole JSON document, and that document's value.
File(filename, valid, value) ==
  [filename |-> filename, valid |-> valid, value |-> value]

\* open(filepath, 'w') followed by the write of a file: the file of that name
\* is replaced, or a new one is added.
write_file(files, file) ==
  IF \E i \in 1..Len(files) : files[i].filename = file.filename
    THEN [i \in 1..Len(files) |->
            IF files[i].filename = file.filename THEN file ELSE files[i]]
    ELSE Append(files, file)

\* What can become of the write of save_candidate: it succeeds; open() raises
\* and no file is made; json.dump raises and leaves a truncated file.
WriteOutcomes == {"written", "open_raises", "dump_raises"}

None == <<>>

create_candidate_record(name, email, phone, experience, position, location, tech_stack, technical_qa) ==
  [k \in REQUIRED_FIELDS \cup {"technical_qa", "status"} |->
     CASE k = "name" -> name
       [] k = "email" -> email
       [] k = "phone" -> phone
       [] k = "experience" -> experience
       [] k = "position" -> position
       [] k = "location" -> location
       [] k = "tech_stack" -> tech_stack
       [] k = "technical_qa" -> technical_qa
       [] k = "status" -> <<"screened">>]

\* now is the text of datetime.now() at the call, to the second.
save_candidate(files, candidate_data, now, write) ==
  LET stamped   == dict_set(candidate_data, "submission_time", now)
      name_slug == replace(lower(dict_get(candidate_data, "name", <<"unknown">>)), " ", "_")
      filename  == name_slug \o <<"_">> \o now \o <<".json">>
      filepath  == <<"data/candidates", "/">> \o filename
  IN  CASE write = "written" ->
             [files |-> write_file(files, File(filename, TRUE, stamped)),
              ret |-> filepath, raised |-> FALSE]
        [] write = "open_raises" ->
             [files |-> files, ret |-> None, raised |-> TRUE]
        [] write = "dump_raises" ->
             [files |-> write_file(files, File(filename, FALSE, EmptyDict)),
              ret |-> None, raised |-> TRUE]

\* json.load of the file: its document, or the exception of a text that is
\* not a whole JSON document.  (os.path.exists holds for a listed file.)
load_candidate(file) ==
  IF file.valid
    THEN [ret |-> file.value, raised |-> FALSE]
    ELSE [ret |-> None, raised |-> TRUE]

\* The loop of get_all_candidates over os.listdir: an exception of
\* load_candidate ends it.
RECURSIVE list_candidates(_, _)
list_candidates(files, candidates) ==
  IF files = <<>> THEN [ret |-> candidates, raised |-> FALSE]
  ELSE LET file == Head(files)
       IN  IF file.filename # <<>> /\ file.filename[Len(file.filename)] = ".json"
             THEN LET candidate == load_candidate(file)
                  IN  IF candidate.raised THEN [ret |-> None, raised |-> TRUE]
                      ELSE list_candidates(
                             Tail(files),
                             IF candidate.ret # EmptyDict
                               THEN Append(candidates, candidate.ret)
                               ELSE candidates)
             ELSE list_candidates(Tail(files), candidates)

get_all_candidates(files) == list_candidates(files, <<>>)

\* save_candidate_data writing a record whether or not a name was collected.
save_candidate_data_without_name(self, data_saved, files, now, write) ==
  LET cd == get_candidate_data(self).ret
      record ==
        create_candidate_record(
          dict_get(cd, "name", <<>>), dict_get(cd, "email", <<>>),
          dict_get(cd, "phone", <<>>), dict_get(cd, "experience", <<>>),
          dict_get(cd, "position", <<>>), dict_get(cd, "location", <<>>),
          dict_get(cd, "tech_stack", <<>>), dict_get(cd, "technical_qa", <<>>))
      saved == save_candidate(files, record, now, write)
  IN  IF ~data_saved /\ is_conversation_complete(self).ret
        THEN [data_saved |-> ~saved.raised, files |-> saved.files,
              ret |-> saved.ret, raised |-> saved.raised]
        ELSE [data_saved |-> data_saved, files |-> files, ret |-> None, raised |-> FALSE]

\* save_candidate_data writing whatever st.session_state.data_saved is.
save_candidate_data_ignores_flag(self, data_saved, files, now, write) ==
  LET cd == get_candidate_data(self).ret
      record ==
        create_candidate_record(
          dict_get(cd, "name", <<>>), dict_get(cd, "email", <<>>),
          dict_get(cd, "phone", <<>>), dict_get(cd, "experience", <<>>),
          dict_get(cd, "position", <<>>), dict_get(cd, "location", <<>>),
          dict_get(cd, "tech_stack", <<>>), dict_get(cd, "technical_qa", <<>>))
      saved == save_candidate(files, record, now, write)
  IN  IF is_conversation_complete(self).ret /\ "name" \in DOMAIN cd
        THEN [data_saved |-> data_saved \/ ~saved.raised, files |-> saved.files,
              ret |-> saved.ret, raised |-> saved.raised]
        ELSE [data_saved |-> data_saved, files |-> files, ret |-> None, raised |-> FALSE]

\* save_candidate_data setting st.session_state.data_saved before the write.
save_candidate_data_flags_first(self, data_saved, files, now, write) ==
  LET cd == get_candidate_data(self).ret
      record ==
        create_candidate_record(
          dict_get(cd, "name", <<>>), dict_get(cd, "email", <<>>),
          dict_get(cd, "phone", <<>>), dict_get(cd, "experience", <<>>),
          dict_get(cd, "position", <<>>), dict_get(cd, "location", <<>>),
          dict_get(cd, "tech_stack", <<>>), dict_get(cd, "technical_qa", <<>>))
      saved == save_candidate(files, record, now, write)
  IN  IF ~data_saved /\ is_conversation_complete(self).ret /\ "name" \in DOMAIN cd
        THEN [data_saved |-> TRUE, files |-> saved.files,
              ret |-> saved.ret, raised |-> saved.raised]
        ELSE [data_saved |-> data_saved, files |-> files, ret |-> None, raised |-> FALSE]

\* The save step of the driver.  An exception of save_candidate leaves it
\* before st.session_state.data_saved is assigned.
save_candidate_data(self, data_saved, files, now, write) ==
  LET cd == get_candidate_data(self).ret
      record ==
        create_candidate_record(
          dict_get(cd, "name", <<>>), dict_get(cd, "email", <<>>),
          dict_get(cd, "phone", <<>>), dict_get(cd, "experience", <<>>),
          dict_get(cd, "position", <<>>), dict_get(cd, "location", <<>>),
          dict_get(cd, "tech_stack", <<>>), dict_get(cd, "technical_qa", <<>>))
      saved == save_candidate(files, record, now, write)
  IN  IF ~data_saved /\ is_conversation_complete(self).ret
           /\ cd # EmptyDict /\ "name" \in DOMAIN cd
        THEN IF saved.raised
               THEN [data_saved |-> data_saved, files |-> saved.files,
                     ret |-> None, raised |-> TRUE]
               ELSE [data_saved |-> TRUE, files |-> saved.files,
                     ret |-> saved.ret, raised |-> FALSE]
        ELSE [data_saved |-> data_saved, files |-> files, ret |-> None, raised |-> FALSE]

\* ------------------------------------------------------------------------
\* The session: what the candidate types and what the AI service answers
\* ------------------------------------------------------------------------

\* Ready words are typed while current_question_index <= MaxReadyIndex.
MaxReadyIndex == 0

\* Length of the question texts of the sample AI replies (above the parser's 10).
QuestionLen == 11

In_Empty == <<>>

In_Blank == <<" ", " ">>

\* Holds the exit keyword "end", in upper case, inside a word.
In_Friend == <<" ","M","y"," ","F","R","I","E","N","D"," ">>

In_Exit == <<"e","x","i","t">>

In_Name == <<" ","A","l"," ","B","o"," ">>

In_OneChar == <<" ","X"," ">>

In_Email == <<" ","a","@","b",".","c","o"," ">>

In_EmailNoTld == <<"a","@","b">>

In_EmailNoAt == <<"a","b",".","c","o">>

In_Phone == <<"+","1"," ","(","5","5","5",")"," ","1","2","3","-","4","5","6","7"," ">>

In_PhoneShort == <<"1","2","3","4","5">>

In_Years == <<" ","3",".","5"," ">>

In_Years60 == <<"6","0">>

In_YearsNeg == <<"-","1">>

In_Abc == <<"a","b","c">>

In_Position == <<" ","d","e","v"," ">>

In_TwoChars == <<" ","Q","A"," ">>

In_Location == <<" ","N","Y"," ">>

In_TechStack == <<" ","G","o",","," ","S","Q","L"," ">>

\* A tech stack typed with more details than In_TechStack.
In_TechStackMore == <<"G","o",","," ","S","Q","L",","," ","C">>

In_Digits == <<"1","2","3","4","5">>

In_Ok == <<"o","k">>

In_Symbols == <<"+","-","*","/">>

In_ShortToken == <<"C",","," ",",">>

In_Ready == <<" ","R","e","a","d","y"," ">>

In_Answer == <<" ","u","s","e"," ","a"," ","m","a","p"," ">>

\* What the candidate may type, by the state the engine is in.
InputsFor(self) ==
  CASE self.state = GREETING -> {In_Friend, In_Name}
    [] self.state = COLLECT_NAME ->
         {In_Friend, In_Exit, In_Empty, In_Blank, In_OneChar, In_Name}
    [] self.state = COLLECT_EMAIL ->
         {In_Friend, In_Empty, In_Blank, In_EmailNoTld, In_EmailNoAt, In_Email}
    [] self.state = COLLECT_PHONE ->
         {In_Friend, In_Empty, In_PhoneShort, In_Abc, In_Phone}
    [] self.state = COLLECT_EXPERIENCE ->
         {In_Friend, In_Empty, In_Years60, In_YearsNeg, In_Abc, In_Years}
    [] self.state = COLLECT_POSITION ->
         {In_Friend, In_Empty, In_Blank, In_TwoChars, In_Position}
    [] self.state = COLLECT_LOCATION ->
         {In_Friend, In_Empty, In_Blank, In_OneChar, In_Location}
    [] self.state = COLLECT_TECH_STACK ->
         {In_Friend, In_Empty, In_Blank, In_Ok, In_Digits, In_Symbols, In_ShortToken,
          In_TechStack}
    [] self.state = ASK_TECHNICAL_QUESTIONS ->
         {In_Friend, In_Answer}
           \cup (IF self.current_question_index <= MaxReadyIndex
                   THEN {In_Ready, In_Ok} ELSE {})
    [] OTHER -> {In_Friend, In_Answer}

\* join(lines, "\n")
RECURSIVE join_lines(_)
join_lines(lines) ==
  IF lines = <<>> THEN <<>>
  ELSE IF Len(lines) = 1 THEN Head(lines)
  ELSE Head(lines) \o <<"\n">> \o join_lines(Tail(lines))

\* A reply line: a list marker, then a question of QuestionLen letters c.
QLine(marker, c) == marker \o [i \in 1..QuestionLen |-> c]

Reply_Header == <<"H","e","r","e",":">>

\* A numbered line whose text is too short to count as a question.
Reply_Short == <<"9",".", " ", "s","h","o","r","t","?">>

\* n question lines under a header, with one too-short line among them.
QuestionReply(n) ==
  join_lines(
    <<Reply_Header, Reply_Short>>
      \o [i \in 1..n |->
            QLine(CASE i % 3 = 1 -> str_int(i) \o <<".", " ">>
                    [] i % 3 = 2 -> <<" ", "-", " ">>
                    [] OTHER     -> <<"*", " ", str_int(i)[1], ")", " ">>,
                  LowerSeq[i])])

Eval_Scored ==
  <<"A","C","K","N","O","W","L","E","D","G","M","E","N","T",":"," ","G","o","o","d",".","\n",
    "S","C","O","R","E",":"," ","8","/","1","0">>

Eval_Plain == <<"f","i","n","e">>

Decision_In ==
  <<"D","E","C","I","S","I","O","N",":"," ","S","c","r","e","e","n"," ","i","n","\n",
    "R","E","A","S","O","N","I","N","G",":"," ","o","k","\n",
    "M","E","S","S","A","G","E",":"," ","h","i">>

Decision_Plain == <<"h","m","m">>

\* The outcomes of the first chat.send_message of a call, by the call site
\* the state leads to.
FirstOutcomes(self) ==
  CASE self.state = GREETING ->
         {AIFailure, AIReply(<<"Hello, I am TalentScout's Hiring Assistant. May I have your full name?">>)}
    [] self.state = COLLECT_TECH_STACK ->
         {AIFailure,
          AIReply(QuestionReply(MIN_TECHNICAL_QUESTIONS - 1)),
          AIReply(QuestionReply(MIN_TECHNICAL_QUESTIONS)),
          AIReply(QuestionReply(MAX_TECHNICAL_QUESTIONS + 1))}
    [] self.state = ASK_TECHNICAL_QUESTIONS ->
         {AIFailure, AIReply(Eval_Scored), AIReply(Eval_Plain)}
    [] self.state = CONCLUSION ->
         {AIFailure, AIReply(Decision_In), AIReply(Decision_Plain)}
    [] OTHER -> {AIFailure}

\* The outcomes of the second chat.send_message of a call: the decision call
\* of the inline conclusion.
SecondOutcomes(self) ==
  IF /\ self.state = ASK_TECHNICAL_QUESTIONS
     /\ self.current_question_index + 1 = Len(self.technical_questions)
    THEN {AIFailure, AIReply(Decision_In), AIReply(Decision_Plain)}
    ELSE {AIFailure}

\* The seconds at which the record writes of a session happen.
Timestamps == { <<"20240101_120000">>, <<"20240101_120001">> }

\* The most files a sampled directory holds.
MaxFiles == 3

\* The record and the name of the file that save_candidate writes for name.
SavedRecord(name) ==
  dict_set(create_candidate_record(name, <<"a","@","b",".","c","o">>, <<>>, <<>>,
                                   <<>>, <<>>, <<>>, <<>>),
           "submission_time", <<"20240101_120000">>)

SavedFilename(name) ==
  replace(lower(name), " ", "_") \o <<"_">> \o <<"20240101_120000">> \o <<".json">>

\* Files a directory may hold: two records, a truncated record, a JSON file
\* holding the empty object, and a file that is no .json file.
SampleFiles ==
  { File(SavedFilename(<<"A","l"," ","B","o">>), TRUE, SavedRecord(<<"A","l"," ","B","o">>)),
    File(SavedFilename(<<"C","y">>), TRUE, SavedRecord(<<"C","y">>)),
    File(SavedFilename(<<"D","i">>), FALSE, EmptyDict),
    File(<<"e","m","p","t","y",".json">>, TRUE, EmptyDict),
    File(<<"n","o","t","e","s",".txt">>, FALSE, EmptyDict) }

\* The directories of at most MaxFiles sample files, each file at most once.
SampleDirectories ==
  UNION { {fs \in [1..n -> SampleFiles] : \A i, j \in 1..n : fs[i] = fs[j] => i = j}
          : n \in 0..MaxFiles }

\* The entries of the transcript that are kept.
MaxTranscript == 3

\* {"role": role, "content": content}
entry(role, content) == [role |-> role, content |-> content]

\* The first MaxTranscript entries of a transcript.
transcript(entries) ==
  SubSeq(entries, 1, MinOf({Len(entries), MaxTranscript}))

\* The longest input tried on the tech-stack gate.
MaxGateLen == 4

\* Every text of at most MaxGateLen characters that are a letter, a digit, a
\* comma, a blank or a sign.
GateInputs ==
  UNION { [1..n -> {"a", "C", "1", ",", " ", "+"}] : n \in 0..MaxGateLen }

\* The most digits of a sampled phone number.
MaxPhoneDigits == 17

\* A phone number of n digits, written with pre before it and mid in its middle.
PhoneText(n, pre, mid) ==
  LET digit(i) == <<"0","1","2","3","4","5","6","7","8","9">>[(i % 10) + 1]
  IN  pre \o [i \in 1..(n \div 2) |-> digit(i)] \o mid
          \o [i \in 1..(n - (n \div 2)) |-> digit(i + (n \div 2))]

\* Phone numbers of 0 to MaxPhoneDigits digits, bare or written with the
\* separators the validator removes, or with a character it does not remove.
PhoneInputs ==
  { PhoneText(n, pre, mid) :
      n \in 0..MaxPhoneDigits,
      pre \in { <<>>, <<"+">>, <<" ", "(">>, <<"x">> },
      mid \in { <<>>, <<"-">>, <<")", "\t">>, <<".">>, <<"a">> } }

\* The most lines of a sampled evaluation reply and of a sampled decision reply.
MaxEvalLines == 3

MaxDecisionLines == 2

\* Lines an evaluation reply may hold: each label in two spellings with two
\* values, and a line without a label.
EvalLines ==
  { <<"S","C","O","R","E",":"," ","8","/","1","0">>,
    <<"s","c","o","r","e",":"," ","3","/","1","0">>,
    <<"A","C","K","N","O","W","L","E","D","G","M","E","N","T",":"," ","G","o","o","d",".">>,
    <<"A","c","k","n","o","w","l","e","d","g","m","e","n","t",":"," ","F","i","n","e",".">>,
    <<"n","o","t","e">> }

DecisionLines ==
  { <<"D","E","C","I","S","I","O","N",":"," ","S","c","r","e","e","n"," ","i","n">>,
    <<"d","e","c","i","s","i","o","n",":"," ","S","C","R","E","E","N"," ","O","U","T">>,
    <<"R","E","A","S","O","N","I","N","G",":"," ","o","k">>,
    <<"R","e","a","s","o","n","i","n","g",":"," ","n","o">>,
    <<"M","E","S","S","A","G","E",":"," ","h","i">>,
    <<"m","e","s","s","a","g","e",":"," ","b","y","e">> }

\* The replies of at most n lines drawn from lines.
RepliesOf(lines, n) ==
  { AIReply(join_lines(ls)) : ls \in UNION { [1..k -> lines] : k \in 0..n } }

\* The engine of a session that gave the greeting, collected the seven fields,
\* fell back to the five default questions and took answers, none of them
\* evaluated, to the first n of them.
AfterAnswers(n) ==
  [state |-> ASK_TECHNICAL_QUESTIONS,
   candidate_data |->
     [k \in REQUIRED_FIELDS \cup {"technical_qa", "evaluation_scores"} |->
        CASE k = "name"       -> strip(In_Name)
          [] k = "email"      -> strip(In_Email)
          [] k = "phone"      -> strip(In_Phone)
          [] k = "experience" -> strip(In_Years)
          [] k = "position"   -> strip(In_Position)
          [] k = "location"   -> strip(In_Location)
          [] k = "tech_stack" -> strip(In_TechStack)
          [] k = "technical_qa" ->
               [i \in 1..n |-> [technology |-> FALLBACK_QUESTIONS[i].technology,
                                question   |-> FALLBACK_QUESTIONS[i].question,
                                answer     |-> strip(In_Answer)]]
          [] OTHER -> <<>>],
   technical_questions |-> FALLBACK_QUESTIONS,
   current_question_index |-> n]

\* The session before the last question, and before the last two.
AtLastQuestion == AfterAnswers(Len(FALLBACK_QUESTIONS) - 1)

AtLastTwoQuestions == AfterAnswers(Len(FALLBACK_QUESTIONS) - 2)

\* Scores an evaluation reply may give: out of 10, without a denominator, out
\* of 5, not a number, and with a decimal point.
ScoreSamples ==
  { <<"8","/","1","0">>, <<"7">>, <<"6","/","5">>, <<"N","/","A">>,
    <<"x","/","1","0">>, <<"7",".","5","/","1","0">> }

ScoredReplies == { AIReply(<<"S","C","O","R","E",":"," ">> \o sc) : sc \in ScoreSamples }

\* ------------------------------------------------------------------------
\* State machine
\* ------------------------------------------------------------------------

VARIABLES
  state,                   \* self.state
  candidate_data,          \* self.candidate_data
  technical_questions,     \* self.technical_questions
  current_question_index,  \* self.current_question_index
  op,                      \* the last method called
  user_message,            \* its argument
  response,                \* the value it returned
  raised,                  \* whether an exception left it
  ai_calls,                \* the chat.send_message calls it made, in order
  state_path,              \* the values it assigned to self.state, in order
  data_saved,              \* st.session_state.data_saved
  files,                   \* the files put in CANDIDATES_DIR since the session began
  shown_questions,         \* the numbers of the questions main has displayed
  messages,                \* the first MaxTranscript of st.session_state.messages
  conversation_started     \* st.session_state.conversation_started

vars ==
  << state, candidate_data, technical_questions, current_question_index,
     op, user_message, response, raised, ai_calls, state_path,
     data_saved, files, shown_questions, messages, conversation_started >>

Self ==
  [state |-> state, candidate_data |-> candidate_data,
   technical_questions |-> technical_questions,
   current_question_index |-> current_question_index]

\* The call named method, with argument message, had result r.
Called(method, message, r) ==
  /\ state' = r.self.state
  /\ candidate_data' = r.self.candidate_data
  /\ technical_questions' = r.self.technical_questions
  /\ current_question_index' = r.self.current_question_index
  /\ op' = method
  /\ user_message' = message
  /\ response' = r.ret
  /\ raised' = r.raised
  /\ ai_calls' = r.calls
  /\ state_path' = r.path

Init ==
  /\ state = GREETING
  /\ candidate_data = EmptyDict
  /\ technical_questions = <<>>
  /\ current_question_index = 0
  /\ op = "__init__"
  /\ user_message = <<>>
  /\ response = <<>>
  /\ raised = FALSE
  /\ ai_calls = <<>>
  /\ state_path = <<>>
  /\ data_saved = FALSE
  /\ files = <<>>
  /\ shown_questions = {}
  /\ messages = <<>>
  /\ conversation_started = FALSE

\* The session asks for the greeting while none has been given.
GetGreeting ==
  /\ state = GREETING
  /\ ~conversation_started
  /\ \E ai \in FirstOutcomes(Self) :
       Called("get_greeting", <<>>, get_greeting(Self, ai))
  /\ messages' = IF raised' THEN messages
                 ELSE transcript(Append(messages, entry("assistant", response')))
  /\ conversation_started' = ~raised'
  /\ UNCHANGED <<data_saved, files, shown_questions>>

ProcessMessage ==
  /\ \E message \in InputsFor(Self) :
       \E ai \in FirstOutcomes(Self) : \E ai2 \in SecondOutcomes(Self) :
         Called("process_message", message, process_message(Self, message, ai, ai2))
  /\ UNCHANGED <<data_saved, files, shown_questions, messages, conversation_started>>

\* reset_conversation: a new session begins.
Reset ==
  /\ \E r \in {reset(Self)} : Called("reset", <<>>, r)
  /\ messages' = <<>>
  /\ conversation_started' = FALSE
  /\ data_saved' = FALSE
  /\ files' = <<>>
  /\ shown_questions' = {}

GetCandidateData ==
  /\ \E r \in {get_candidate_data(Self)} : Called("get_candidate_data", <<>>, r)
  /\ UNCHANGED <<data_saved, files, shown_questions, messages, conversation_started>>

IsConversationComplete ==
  /\ \E r \in {is_conversation_complete(Self)} :
       Called("is_conversation_complete", <<>>, r)
  /\ UNCHANGED <<data_saved, files, shown_questions, messages, conversation_started>>

\* The save step, which main runs when the conversation is complete.
SaveCandidateData ==
  /\ is_conversation_complete(Self).ret
  /\ \E now \in Timestamps : \E write \in WriteOutcomes :
       LET r == save_candidate_data(Self, data_saved, files, now, write)
       IN  /\ data_saved' = r.data_saved
           /\ files' = r.files
           /\ op' = "save_candidate_data"
           /\ user_message' = <<>>
           /\ response' = r.ret
           /\ raised' = r.raised
           /\ ai_calls' = <<>>
           /\ state_path' = <<>>
  /\ UNCHANGED <<state, candidate_data, technical_questions, current_question_index,
                 shown_questions, messages, conversation_started>>

Next ==
  \/ GetGreeting
  \/ ProcessMessage
  \/ Reset
  \/ GetCandidateData
  \/ IsConversationComplete

Spec == Init /\ [][Next]_vars

\* The session as main of src/app.py drives it: the greeting first, chat
\* input while the conversation is not complete, the save step once it is,
\* and a reset at any time.  The candidate and the AI service are sampled
\* more thinly than in Spec.
DriverInputs(self) ==
  (InputsFor(self) \cap
     {In_Friend, In_Exit, In_Empty, In_Name, In_EmailNoTld, In_Email, In_Phone,
      In_Years, In_Position, In_Location, In_Ok, In_TechStack, In_Ready, In_Answer})
    \cup (IF self.state = COLLECT_TECH_STACK THEN {In_TechStackMore} ELSE {})

DriverOutcomes(outcomes) ==
  outcomes \ {AIReply(QuestionReply(MAX_TECHNICAL_QUESTIONS + 1)),
              AIReply(Eval_Plain), AIReply(Decision_Plain)}

\* The numbers of the questions whose prompt text holds.
questions_in(text, questions) ==
  { i \in 1..Len(questions) :
      contains(get_technical_question_prompt(questions[i].question,
                                             questions[i].technology,
                                             i, Len(questions)),
               text) }

\* The chat input of main, shown once the greeting is there and until the
\* conversation is complete.
ChatInput ==
  /\ conversation_started
  /\ ~is_conversation_complete(Self).ret
  /\ \E message \in DriverInputs(Self) :
       \E ai \in DriverOutcomes(FirstOutcomes(Self)) :
         \E ai2 \in DriverOutcomes(SecondOutcomes(Self)) :
           Called("process_message", message, process_message(Self, message, ai, ai2))
  /\ shown_questions' = shown_questions \cup questions_in(response', technical_questions')
  /\ messages' =
       transcript(messages \o <<entry("user", user_message')>>
                           \o (IF raised' THEN <<>>
                               ELSE <<entry("assistant", response')>>))
  /\ UNCHANGED <<data_saved, files, conversation_started>>

DriverNext ==
  \/ GetGreeting
  \/ ChatInput
  \/ SaveCandidateData
  \/ Reset

DriverSpec == Init /\ [][DriverNext]_vars

\* The session right after reset_conversation has run: what reset and the
\* three assignments that follow it leave, for a session that starts anew.
ResetInit ==
  /\ state = GREETING
  /\ candidate_data = EmptyDict
  /\ technical_questions = <<>>
  /\ current_question_index = 0
  /\ op = "reset"
  /\ user_message = <<>>
  /\ response = <<>>
  /\ raised = FALSE
  /\ ai_calls = <<>>
  /\ state_path = <<GREETING>>
  /\ data_saved = FALSE
  /\ files = <<>>
  /\ shown_questions = {}
  /\ messages = <<>>
  /\ conversation_started = FALSE

ResetSpec == ResetInit /\ [][DriverNext]_vars

\* The record store on its own: a directory as earlier sessions and other
\* programs left it, and the listing of it.
StoreInit ==
  /\ state = GREETING
  /\ candidate_data = EmptyDict
  /\ technical_questions = <<>>
  /\ current_question_index = 0
  /\ op = "__init__"
  /\ user_message = <<>>
  /\ response = <<>>
  /\ raised = FALSE
  /\ ai_calls = <<>>
  /\ state_path = <<>>
  /\ data_saved = FALSE
  /\ files \in SampleDirectories
  /\ shown_questions = {}
  /\ messages = <<>>
  /\ conversation_started = FALSE

GetAllCandidates ==
  /\ op' = "get_all_candidates"
  /\ response' = get_all_candidates(files).ret
  /\ raised' = get_all_candidates(files).raised
  /\ UNCHANGED <<state, candidate_data, technical_questions, current_question_index,
                 user_message, ai_calls, state_path, data_saved, files, shown_questions,
                 messages, conversation_started>>

StoreNext == GetAllCandidates

StoreSpec == StoreInit /\ [][StoreNext]_vars

\* The phone question on its own: a session that has collected name and
\* e-mail address, and one input typed at it.
PhoneInit ==
  /\ state = COLLECT_PHONE
  /\ candidate_data =
       [k \in {"name", "email"} |->
          IF k = "name" THEN strip(In_Name) ELSE strip(In_Email)]
  /\ technical_questions = <<>>
  /\ current_question_index = 0
  /\ op = "__init__"
  /\ user_message \in PhoneInputs
  /\ response = <<>>
  /\ raised = FALSE
  /\ ai_calls = <<>>
  /\ state_path = <<>>
  /\ data_saved = FALSE
  /\ files = <<>>
  /\ shown_questions = {}
  /\ messages = <<>>
  /\ conversation_started = FALSE

PhoneInput ==
  /\ op = "__init__"
  /\ Called("process_message", user_message,
            process_message(Self, user_message, AIFailure, AIFailure))
  /\ UNCHANGED <<data_saved, files, shown_questions, messages, conversation_started>>

PhoneNext == PhoneInput

PhoneSpec == PhoneInit /\ [][PhoneNext]_vars

\* The last question on its own: its answer, with the evaluation reply and the
\* decision reply that the AI service gives.
ParseInit ==
  /\ state = AtLastQuestion.state
  /\ candidate_data = AtLastQuestion.candidate_data
  /\ technical_questions = AtLastQuestion.technical_questions
  /\ current_question_index = AtLastQuestion.current_question_index
  /\ op = "__init__"
  /\ user_message = <<>>
  /\ response = <<>>
  /\ raised = FALSE
  /\ ai_calls = <<>>
  /\ state_path = <<>>
  /\ data_saved = FALSE
  /\ files = <<>>
  /\ shown_questions = 1..(current_question_index + 1)
  /\ messages = <<>>
  /\ conversation_started = FALSE

LastAnswer ==
  /\ op = "__init__"
  /\ \E ai \in {AIFailure} \cup RepliesOf(EvalLines, MaxEvalLines) :
       \E ai2 \in {AIFailure} \cup RepliesOf(DecisionLines, MaxDecisionLines) :
         Called("process_message", In_Answer, process_message(Self, In_Answer, ai, ai2))
  /\ UNCHANGED <<data_saved, files, shown_questions, messages, conversation_started>>

ParseNext == LastAnswer

ParseSpec == ParseInit /\ [][ParseNext]_vars

\* The last two questions on their own, the evaluation replies giving scores
\* of several forms.
SummaryInit ==
  /\ state = AtLastTwoQuestions.state
  /\ candidate_data = AtLastTwoQuestions.candidate_data
  /\ technical_questions = AtLastTwoQuestions.technical_questions
  /\ current_question_index = AtLastTwoQuestions.current_question_index
  /\ op = "__init__"
  /\ user_message = <<>>
  /\ response = <<>>
  /\ raised = FALSE
  /\ ai_calls = <<>>
  /\ state_path = <<>>
  /\ data_saved = FALSE
  /\ files = <<>>
  /\ shown_questions = 1..(current_question_index + 1)
  /\ messages = <<>>
  /\ conversation_started = FALSE

ScoredAnswer ==
  /\ state = ASK_TECHNICAL_QUESTIONS
  /\ \E ai \in {AIFailure} \cup ScoredReplies : \E ai2 \in SecondOutcomes(Self) :
       Called("process_message", In_Answer, process_message(Self, In_Answer, ai, ai2))
  /\ UNCHANGED <<data_saved, files, shown_questions, messages, conversation_started>>

SummaryNext == ScoredAnswer

SummarySpec == SummaryInit /\ [][SummaryNext]_vars

\* The session of a candidate who keeps typing, at each question, an input
\* that passes the question's validation and holds no exit keyword, and who
\* types a ready word only while the first question has not been shown.  The
\* AI service answers each call as it likes, sampled as in DriverSpec.
ValidInputs(self, shown) ==
  CASE self.state = COLLECT_NAME -> {In_Name}
    [] self.state = COLLECT_EMAIL -> {In_Email}
    [] self.state = COLLECT_PHONE -> {In_Phone}
    [] self.state = COLLECT_EXPERIENCE -> {In_Years}
    [] self.state = COLLECT_POSITION -> {In_Position}
    [] self.state = COLLECT_LOCATION -> {In_Location}
    [] self.state = COLLECT_TECH_STACK -> {In_TechStack, In_TechStackMore}
    [] self.state = ASK_TECHNICAL_QUESTIONS ->
         {In_Answer} \cup (IF 1 \notin shown THEN {In_Ready} ELSE {})
    [] OTHER -> {}

ValidInput ==
  /\ conversation_started
  /\ ~is_conversation_complete(Self).ret
  /\ \E message \in ValidInputs(Self, shown_questions) :
       \E ai \in DriverOutcomes(FirstOutcomes(Self)) :
         \E ai2 \in DriverOutcomes(SecondOutcomes(Self)) :
           Called("process_message", message, process_message(Self, message, ai, ai2))
  /\ shown_questions' = shown_questions \cup questions_in(response', technical_questions')
  /\ messages' =
       transcript(messages \o <<entry("user", user_message')>>
                           \o (IF raised' THEN <<>>
                               ELSE <<entry("assistant", response')>>))
  /\ UNCHANGED <<data_saved, files, conversation_started>>

LiveNext ==
  \/ GetGreeting
  \/ ValidInput

\* main asks for the greeting on every run until it is given.  That the
\* candidate keeps typing is the premise of the liveness property: a behaviour
\* with infinitely many ValidInput steps satisfies WF_vars(ValidInput) too.
LiveSpec ==
  /\ Init
  /\ [][LiveNext]_vars
  /\ WF_vars(GetGreeting)

\* The engine as a caller other than main may use it: the four public calls
\* other than reset, each in any state.  The candidate and the AI service are
\* sampled as in DriverSpec.
AnyGetGreeting ==
  /\ \E ai \in FirstOutcomes([Self EXCEPT !.state = GREETING]) :
       Called("get_greeting", <<>>, get_greeting(Self, ai))
  /\ UNCHANGED <<data_saved, files, shown_questions, messages, conversation_started>>

AnyProcessMessage ==
  /\ \E message \in DriverInputs(Self) :
       \E ai \in DriverOutcomes(FirstOutcomes(Self)) :
         \E ai2 \in DriverOutcomes(SecondOutcomes(Self)) :
           Called("process_message", message, process_message(Self, message, ai, ai2))
  /\ UNCHANGED <<data_saved, files, shown_questions, messages, conversation_started>>

ApiNext ==
  \/ AnyGetGreeting
  \/ AnyProcessMessage
  \/ GetCandidateData
  \/ IsConversationComplete

ApiSpec == Init /\ [][ApiNext]_vars

\* The tech-stack question on its own: a session that has collected the six
\* fields before it, and one input typed at it.
GateInit ==
  /\ state = COLLECT_TECH_STACK
  /\ candidate_data =
       [k \in REQUIRED_FIELDS \ {"tech_stack"} |->
          CASE k = "name" -> strip(In_Name)
            [] k = "email" -> strip(In_Email)
            [] k = "phone" -> strip(In_Phone)
            [] k = "experience" -> strip(In_Years)
            [] k = "position" -> strip(In_Position)
            [] k = "location" -> strip(In_Location)]
  /\ technical_questions = <<>>
  /\ current_question_index = 0
  /\ op = "__init__"
  /\ user_message \in GateInputs
  /\ response = <<>>
  /\ raised = FALSE
  /\ ai_calls = <<>>
  /\ state_path = <<>>
  /\ data_saved = FALSE
  /\ files = <<>>
  /\ shown_questions = {}
  /\ messages = <<>>
  /\ conversation_started = FALSE

TechStackInput ==
  /\ op = "__init__"
  /\ \E ai \in FirstOutcomes(Self) :
       Called("process_message", user_message,
              process_message(Self, user_message, ai, AIFailure))
  /\ UNCHANGED <<data_saved, files, shown_questions, messages, conversation_started>>

GateNext == TechStackInput

GateSpec == GateInit /\ [][GateNext]_vars

\* ------------------------------------------------------------------------
\* Properties
\* ------------------------------------------------------------------------

AllStates == {ConversationState[i] : i \in 1..Len(ConversationState)}

CollectStates ==
  {COLLECT_NAME, COLLECT_EMAIL, COLLECT_PHONE, COLLECT_EXPERIENCE,
   COLLECT_POSITION, COLLECT_LOCATION, COLLECT_TECH_STACK}

\* Every sample input, whatever the state it is typed in.
AllInputs ==
  {In_Empty, In_Blank, In_Friend, In_Exit, In_Name, In_OneChar, In_Email,
   In_EmailNoTld, In_EmailNoAt, In_Phone, In_PhoneShort, In_Years, In_Years60,
   In_YearsNeg, In_Abc, In_Position, In_TwoChars, In_Location, In_TechStack,
   In_Digits, In_Ok, In_Symbols, In_ShortToken, In_Ready, In_Answer}

\* m holds an exit keyword as a substring, letter case ignored.
HoldsExitKeyword(m) ==
  \E k \in EXIT_KEYWORDS : \E i \in 1..Len(m) :
    /\ i + Len(k) - 1 <= Len(m)
    /\ \A j \in 1..Len(k) : lower_char(m[i + j - 1]) = k[j]

ExitInputs == {m \in AllInputs : HoldsExitKeyword(m)}

\* The state that follows st in the order of ConversationState.
Successor(st) ==
  ConversationState[(CHOOSE i \in 1..Len(ConversationState) : ConversationState[i] = st) + 1]

\* The candidate_data key a COLLECT_* state fills.
FieldOf(st) ==
  CASE st = COLLECT_NAME -> "name"
    [] st = COLLECT_EMAIL -> "email"
    [] st = COLLECT_PHONE -> "phone"
    [] st = COLLECT_EXPERIENCE -> "experience"
    [] st = COLLECT_POSITION -> "position"
    [] st = COLLECT_LOCATION -> "location"
    [] st = COLLECT_TECH_STACK -> "tech_stack"

\* The validation rule of each COLLECT_* state: the validator of
\* validators.py, and for position, location and tech stack the rule as the
\* specification words it.
PassesRule(st, m) ==
  CASE st = COLLECT_NAME -> validate_name(m).is_valid
    [] st = COLLECT_EMAIL -> validate_email(m).is_valid
    [] st = COLLECT_PHONE -> validate_phone(m).is_valid
    [] st = COLLECT_EXPERIENCE -> validate_experience(m).is_valid
    [] st = COLLECT_POSITION -> Len(strip(m)) >= 3
    [] st = COLLECT_LOCATION -> Len(strip(m)) >= 2
    [] st = COLLECT_TECH_STACK ->
         LET t      == strip(m)
             tokens == split(replace(t, ",", " "))
         IN  /\ t # <<>>
             /\ ~isdigit(t)
             /\ any_alpha(t)
             /\ ~(Len(tokens) = 1 /\ Len(tokens[1]) <= 2)

\* C1: in every engine state, for every input that holds an exit keyword
\* (case-insensitive substring), process_message sets the state to ENDED and
\* returns the fixed exit confirmation; it changes nothing else, calls the AI
\* service at no site and raises nothing, so no validator or handler ran.
C1_ExitKeywordEndsSession ==
  \A st \in AllStates : \A m \in ExitInputs :
    LET before == [Self EXCEPT !.state = st]
    IN  \A ai \in FirstOutcomes(before) : \A ai2 \in SecondOutcomes(before) :
          LET r == process_message(before, m, ai, ai2)
          IN  /\ r.self = [before EXCEPT !.state = ENDED]
              /\ r.ret = get_exit_confirmation
              /\ r.calls = <<>>
              /\ ~r.raised

\* An exit keyword inside an upper-case word ended a session in mid-interview.
C1_Witness ==
  /\ op = "process_message"
  /\ user_message = In_Friend
  /\ HoldsExitKeyword(user_message)
  /\ state = ENDED
  /\ response = get_exit_confirmation
  /\ technical_questions # <<>>
  /\ current_question_index > 0

\* C2: a process_message call leaves the state where it was, moves it to the
\* immediate successor in the order of ConversationState, or moves it to
\* ENDED; every assignment to the state within the call is such a move, so no
\* COLLECT_* state is skipped; and from ENDED the state stays ENDED.
C2_LinearProgression ==
  [][op' = "process_message" =>
       /\ (state' = state \/ state' = ENDED \/ state' = Successor(state))
       /\ \A i \in 1..Len(state_path') :
            LET from == IF i = 1 THEN state ELSE state_path'[i - 1]
            IN  state_path'[i] = ENDED \/ state_path'[i] = Successor(from)
       /\ (state = ENDED => state' = ENDED)]_vars

\* The interview phase was entered by a call, with every field collected.
C2_Witness ==
  /\ op = "process_message"
  /\ state = ASK_TECHNICAL_QUESTIONS
  /\ state_path = <<ASK_TECHNICAL_QUESTIONS>>
  /\ {FieldOf(st) : st \in CollectStates} \subseteq DOMAIN candidate_data

\* C3: in a COLLECT_* state, an input without exit keyword that fails the
\* state's validation rule gets a non-empty message, and the state and
\* candidate_data stay as they were.
C3_InvalidInputKeepsState ==
  [][(/\ op' = "process_message"
      /\ state \in CollectStates
      /\ ~HoldsExitKeyword(user_message')
      /\ ~PassesRule(state, user_message'))
     => (/\ response' # <<>>
         /\ ~raised'
         /\ state' = state
         /\ candidate_data' = candidate_data)]_vars

\* A malformed e-mail address was refused in COLLECT_EMAIL.
C3_Witness ==
  /\ op = "process_message"
  /\ state = COLLECT_EMAIL
  /\ user_message = In_EmailNoTld
  /\ response = <<"Please provide a valid email address (e.g., name@example.com).">>
  /\ DOMAIN candidate_data = {"name"}

\* C4: in COLLECT_NAME .. COLLECT_LOCATION, an input without exit keyword
\* that passes the state's rule is stored trimmed under the state's key, no
\* other key changes, the state becomes the next COLLECT_* state, and the
\* canned prompt of the next field is returned, with no AI call.
C4_ValidInputStoredAndAdvances ==
  [][(/\ op' = "process_message"
      /\ state \in CollectStates \ {COLLECT_TECH_STACK}
      /\ ~HoldsExitKeyword(user_message')
      /\ PassesRule(state, user_message'))
     => (/\ candidate_data' = dict_set(candidate_data, FieldOf(state), strip(user_message'))
         /\ state' = Successor(state)
         /\ state' \in CollectStates
         /\ response' = get_info_collection_prompt(
                          FieldOf(state'),
                          IF state = COLLECT_NAME THEN user_message' ELSE <<>>)
         /\ ai_calls' = <<>>
         /\ ~raised')]_vars

\* A phone number typed with separators and a trailing blank was stored trimmed.
C4_Witness ==
  /\ op = "process_message"
  /\ state = COLLECT_EXPERIENCE
  /\ user_message = In_Phone
  /\ candidate_data["phone"] = SubSeq(In_Phone, 1, Len(In_Phone) - 1)
  /\ response = get_info_collection_prompt("experience", <<>>)

\* C5: no call of get_greeting or process_message ends with the exception of
\* a failed AI call: each of the four call sites catches the failure.
C5_NoProviderErrorPropagates ==
  (op \in {"get_greeting", "process_message"} /\ ai_calls # <<>>
     /\ ~ai_calls[Len(ai_calls)].ok)
    => ~raised

\* The input passed the tech-stack gate and the one AI call of the step was c.
TechStackAccepted(c) ==
  /\ op' = "process_message"
  /\ state = COLLECT_TECH_STACK
  /\ ~HoldsExitKeyword(user_message')
  /\ PassesRule(COLLECT_TECH_STACK, user_message')
  /\ ai_calls' = <<c>>

RE_REQUEST ==
  <<"I'm having trouble generating enough questions. Could you please re-enter your tech stack with more details?">>

\* C6: in COLLECT_TECH_STACK, when the input passes the gate and the AI reply
\* holds fewer than MIN_TECHNICAL_QUESTIONS parseable question lines, the
\* re-request message is returned, the state stays COLLECT_TECH_STACK, and
\* technical_questions and current_question_index are unchanged.
C6_TooFewQuestionsAsksAgain ==
  [][\A c \in {Call("questions", AIReply(QuestionReply(n))) :
                 n \in 0..(MIN_TECHNICAL_QUESTIONS - 1)} :
       TechStackAccepted(c)
         => (/\ response' = RE_REQUEST
             /\ ~raised'
             /\ state' = COLLECT_TECH_STACK
             /\ state_path' = <<>>
             /\ technical_questions' = technical_questions
             /\ current_question_index' = current_question_index)]_vars

\* A reply of four question lines was refused after the tech stack passed.
C6_Witness ==
  /\ op = "process_message"
  /\ state = COLLECT_TECH_STACK
  /\ user_message = In_TechStack
  /\ ai_calls = <<Call("questions", AIReply(QuestionReply(MIN_TECHNICAL_QUESTIONS - 1)))>>
  /\ response = RE_REQUEST
  /\ technical_questions = <<>>

\* C7: in COLLECT_TECH_STACK, when the input passes the gate and the
\* question-generation call fails, technical_questions becomes the five fixed
\* fallback questions, current_question_index is 0, the state becomes
\* ASK_TECHNICAL_QUESTIONS, and the introduction asking for readiness is
\* returned.
C7_FailedGenerationUsesFallback ==
  [][TechStackAccepted(Call("questions", AIFailure))
       => (/\ technical_questions' = FALLBACK_QUESTIONS
           /\ Len(technical_questions') = 5
           /\ current_question_index' = 0
           /\ state' = ASK_TECHNICAL_QUESTIONS
           /\ ~raised'
           /\ response' = get_technical_question_intro(user_message')
                \o <<"\n\n**Type 'ready' when you're ready for the first question.**">>)]_vars

\* The interview started on the fallback questions after a failed call.
C7_Witness ==
  /\ op = "process_message"
  /\ user_message = In_TechStack
  /\ ai_calls = <<Call("questions", AIFailure)>>
  /\ state = ASK_TECHNICAL_QUESTIONS
  /\ technical_questions = FALLBACK_QUESTIONS
  /\ current_question_index = 0

\* C8: in ASK_TECHNICAL_QUESTIONS with current_question_index = 0, an input
\* whose trimmed lower-case form is a ready word gets the first formatted
\* question, and state, index and candidate_data (technical_qa with it) are
\* unchanged and no AI call is made; any other input without exit keyword is
\* taken as the answer to the current question: it is evaluated, recorded
\* trimmed against question 1, and the index becomes 1.
C8_ReadyWordShowsFirstQuestion ==
  [][(/\ op' = "process_message"
      /\ state = ASK_TECHNICAL_QUESTIONS
      /\ current_question_index = 0
      /\ ~HoldsExitKeyword(user_message'))
     => IF lower(strip(user_message')) \in READY_WORDS
          THEN /\ response' = get_technical_question_prompt(
                                technical_questions[1].question,
                                technical_questions[1].technology,
                                1, Len(technical_questions))
               /\ state' = state
               /\ current_question_index' = 0
               /\ candidate_data' = candidate_data
               /\ technical_questions' = technical_questions
               /\ ai_calls' = <<>>
          ELSE /\ current_question_index' = 1
               /\ ai_calls'[1].site = "evaluation"
               /\ LET qa == candidate_data'["technical_qa"]
                  IN  /\ Len(qa) = Len(candidate_data["technical_qa"]) + 1
                      /\ qa[Len(qa)].answer = strip(user_message')
                      /\ qa[Len(qa)].question = technical_questions[1].question]_vars

\* A ready word typed with capitals and blanks showed question 1.
C8_Witness ==
  /\ op = "process_message"
  /\ user_message = In_Ready
  /\ state = ASK_TECHNICAL_QUESTIONS
  /\ current_question_index = 0
  /\ candidate_data["technical_qa"] = <<>>
  /\ response[1] = "**Question "
  /\ ai_calls = <<>>

\* The outcomes the decision call of a conclusion may have.
DecisionOutcomes == {AIFailure, AIReply(Decision_In), AIReply(Decision_Plain)}

\* resp ends with the conclusion text of a session whose data is cd.
EndsWithConclusion(resp, cd) ==
  \E ai \in DecisionOutcomes :
    LET text == _conclude_conversation(
                  [state |-> CONCLUSION, candidate_data |-> cd,
                   technical_questions |-> <<>>, current_question_index |-> 0],
                  ai).ret
    IN  /\ Len(resp) >= Len(text)
        /\ SubSeq(resp, Len(resp) - Len(text) + 1, Len(resp)) = text

\* resp holds an acknowledgment, then the interview summary block, then the
\* conclusion text.
AckSummaryConclusion(resp, cd) ==
  /\ \E i \in 2..Len(resp) : resp[i] = "\n\n**Interview Summary:**\n"
  /\ EndsWithConclusion(resp, cd)

\* The step handled an answer in ASK_TECHNICAL_QUESTIONS.
AnswerHandled ==
  /\ op' = "process_message"
  /\ state = ASK_TECHNICAL_QUESTIONS
  /\ current_question_index' = current_question_index + 1

\* C9: when handling an answer makes current_question_index reach
\* Len(technical_questions), the text returned by that call holds an
\* acknowledgment and the interview summary block followed by the conclusion
\* text, and the state goes to CONCLUSION and then ENDED within the call,
\* whether the evaluation call succeeded or failed.
C9_LastAnswerConcludesInline ==
  [][(AnswerHandled /\ current_question_index' = Len(technical_questions))
       => (/\ AckSummaryConclusion(response', candidate_data')
           /\ state_path' = <<CONCLUSION, ENDED>>
           /\ state' = ENDED)]_vars

\* The acknowledgments get_question_acknowledgment can give.
StaticAcknowledgments ==
  {get_question_acknowledgment(1), get_question_acknowledgment(0)}

\* C10: when the evaluation call fails, exactly one TechnicalQA entry holding
\* technology, question and trimmed answer, and neither evaluation nor score,
\* is appended, current_question_index grows by exactly 1, and the call
\* branches as the success path does, with a static acknowledgment first: the
\* next question if one remains, otherwise summary and conclusion inline.
C10_FailedEvaluationStillAdvances ==
  [][(/\ op' = "process_message"
      /\ state = ASK_TECHNICAL_QUESTIONS
      /\ ai_calls' # <<>>
      /\ ai_calls'[1] = Call("evaluation", AIFailure))
     => LET before == candidate_data["technical_qa"]
            qa     == candidate_data'["technical_qa"]
            q      == technical_questions[current_question_index + 1]
        IN  /\ qa = Append(before,
                      [technology |-> q.technology, question |-> q.question,
                       answer |-> strip(user_message')])
            /\ current_question_index' = current_question_index + 1
            /\ ~raised'
            /\ \E ack \in StaticAcknowledgments :
                 SubSeq(response', 1, Len(ack)) = ack
            /\ IF current_question_index' < Len(technical_questions)
                 THEN /\ state' = ASK_TECHNICAL_QUESTIONS
                      /\ LET n == technical_questions[current_question_index' + 1]
                         IN  response' =
                               get_question_acknowledgment(
                                 Len(technical_questions) - current_question_index')
                               \o <<"\n\n">>
                               \o get_technical_question_prompt(
                                    n.question, n.technology,
                                    current_question_index' + 1, Len(technical_questions))
                 ELSE /\ state_path' = <<CONCLUSION, ENDED>>
                      /\ AckSummaryConclusion(response', candidate_data')]_vars

\* The step ran the conclusion: its last AI call was the decision call.
ConclusionRan ==
  /\ op' = "process_message"
  /\ ai_calls' # <<>>
  /\ ai_calls'[Len(ai_calls')].site = "decision"

SCREEN_OUT == <<"S","C","R","E","E","N"," ","O","U","T">>

\* C11: after the conclusion step has run, candidate_data holds a screening
\* decision and a screening reasoning: the values of the reply's DECISION and
\* REASONING lines when the reply carries them, and "SCREEN OUT" and the empty
\* reasoning when a label is absent or the decision call failed; and the
\* state is ENDED.
C11_ConclusionStoresDecision ==
  [][ConclusionRan
       => LET c == ai_calls'[Len(ai_calls')]
          IN  /\ state' = ENDED
              /\ "screening_decision" \in DOMAIN candidate_data'
              /\ "screening_reasoning" \in DOMAIN candidate_data'
              /\ IF c.ok /\ c.text = Decision_In
                   THEN /\ candidate_data'["screening_decision"]
                             = <<"S","c","r","e","e","n"," ","i","n">>
                        /\ candidate_data'["screening_reasoning"] = <<"o","k">>
                   ELSE /\ candidate_data'["screening_decision"] = SCREEN_OUT
                        /\ candidate_data'["screening_reasoning"] = <<>>]_vars

SESSION_CLOSED ==
  <<"The conversation has ended. Please refresh to start a new screening session.">>

\* C12, as stated: once the state is ENDED, process_message returns the same
\* fixed session-closed text for every input.
C12_EndedAlwaysSessionClosed ==
  [][(op' = "process_message" /\ state = ENDED) => response' = SESSION_CLOSED]_vars

\* C12, amended: once the state is ENDED, process_message returns the fixed
\* session-closed text for every input without exit keyword and the fixed
\* exit confirmation for every input with one; the text depends on nothing
\* else, and the state stays ENDED.
C12_EndedTextFixedByExitIntent ==
  [][(op' = "process_message" /\ state = ENDED)
       => (/\ response' = IF HoldsExitKeyword(user_message')
                            THEN get_exit_confirmation ELSE SESSION_CLOSED
           /\ state' = ENDED
           /\ ~raised')]_vars

\* An answer typed after the interview was concluded got the closed text.
C12_Witness ==
  /\ op = "process_message"
  /\ state = ENDED
  /\ state_path = <<>>
  /\ user_message = In_Answer
  /\ response = SESSION_CLOSED
  /\ "screening_decision" \in DOMAIN candidate_data

\* C13: once the state is ENDED, every process_message,
\* is_conversation_complete and get_candidate_data call leaves state,
\* candidate_data, technical_questions and current_question_index unchanged
\* and makes no AI call, and is_conversation_complete returns true.
C13_EndedIsFrozen ==
  [][(/\ state = ENDED
      /\ op' \in {"process_message", "is_conversation_complete", "get_candidate_data"})
     => (/\ state' = ENDED
         /\ candidate_data' = candidate_data
         /\ technical_questions' = technical_questions
         /\ current_question_index' = current_question_index
         /\ ai_calls' = <<>>
         /\ ~raised'
         /\ (op' = "is_conversation_complete" => response' = TRUE)
         /\ (op' = "get_candidate_data" => response' = candidate_data))]_vars

\* is_conversation_complete answered true for a concluded interview.
C13_Witness ==
  /\ op = "is_conversation_complete"
  /\ response = TRUE
  /\ state = ENDED
  /\ current_question_index = Len(technical_questions)
  /\ current_question_index > 0

\* The candidate records persisted in fs: its whole JSON documents.
PersistedRecords(fs) == {i \in 1..Len(fs) : fs[i].valid}

\* C14: for a completed session whose first save succeeded, every later run
\* of the save step is a no-op: it writes nothing, returns None, and the
\* number of records persisted for the session stays 1.
C14_SaveStepWritesOnce ==
  [][(op' = "save_candidate_data" /\ data_saved)
       => (/\ Cardinality(PersistedRecords(files)) = 1
           /\ files' = files
           /\ data_saved'
           /\ response' = None
           /\ ~raised')]_vars

\* The save step ran again after the record of a full interview was saved.
C14_Witness ==
  /\ op = "save_candidate_data"
  /\ data_saved
  /\ response = None
  /\ Cardinality(PersistedRecords(files)) = 1
  /\ current_question_index = Len(technical_questions)
  /\ current_question_index > 0

\* C15, as stated: every session that reached ENDED has exactly one record
\* persisted once the save step has run.
C15_ExactlyOneRecordPerEndedSession ==
  (op = "save_candidate_data" /\ state = ENDED)
    => Cardinality(PersistedRecords(files)) = 1

\* C15, amended: a session never has more than one record persisted, by
\* whatever path it reached ENDED; it has exactly one as soon as a write of
\* the save step has succeeded, which happens for a session that ran the
\* whole interview whenever the write does not fail; and it has none while
\* no name was collected.
C15_AtMostOneRecordPerSession ==
  /\ Cardinality(PersistedRecords(files)) <= 1
  /\ data_saved <=> Cardinality(PersistedRecords(files)) = 1
  /\ "name" \notin DOMAIN candidate_data => files = <<>>
  /\ (/\ op = "save_candidate_data"
      /\ ~raised
      /\ current_question_index > 0
      /\ current_question_index = Len(technical_questions))
     => Cardinality(PersistedRecords(files)) = 1

\* The save step ran for a session ended by "exit" at the name question:
\* nothing was persisted.
C15_Witness ==
  /\ op = "save_candidate_data"
  /\ state = ENDED
  /\ candidate_data = EmptyDict
  /\ ~raised
  /\ files = <<>>

\* C16: whenever a record is persisted, candidate_data holds all seven
\* required fields, and the record holds a non-blank value for each.
C16_RecordHasAllRequiredFields ==
  \A i \in PersistedRecords(files) :
    /\ REQUIRED_FIELDS \subseteq DOMAIN candidate_data
    /\ \A k \in REQUIRED_FIELDS :
         /\ k \in DOMAIN files[i].value
         /\ strip(files[i].value[k]) # <<>>

\* C17: the record persisted for a session that reached a screening decision
\* holds the required fields, technical_qa, status and submission_time, and
\* the screening decision and reasoning stored in candidate_data.
C17_RecordHoldsScreeningDecision ==
  \A i \in PersistedRecords(files) :
    "screening_decision" \in DOMAIN candidate_data
      => LET record == files[i].value
         IN  /\ REQUIRED_FIELDS \cup {"technical_qa", "status", "submission_time"}
                  \subseteq DOMAIN record
             /\ "screening_decision" \in DOMAIN record
             /\ "screening_reasoning" \in DOMAIN record
             /\ record["screening_decision"] = candidate_data["screening_decision"]
             /\ record["screening_reasoning"] = candidate_data["screening_reasoning"]

\* C18: when the record write fails, the save step raises and data_saved
\* stays false, so that a later run of the save step writes again; and
\* data_saved becomes true only in a save step whose write succeeded.
C18_FailedWriteCanBeRetried ==
  [][op' = "save_candidate_data"
       => /\ raised' => (/\ ~data_saved /\ ~data_saved'
                         /\ PersistedRecords(files') = {}
                         /\ \A now \in Timestamps :
                              LET again == save_candidate_data(
                                             [state |-> state',
                                              candidate_data |-> candidate_data',
                                              technical_questions |-> technical_questions',
                                              current_question_index |-> current_question_index'],
                                             data_saved', files', now, "written")
                              IN  /\ again.data_saved
                                  /\ Cardinality(PersistedRecords(again.files)) = 1)
          /\ (~data_saved /\ data_saved')
               => (/\ ~raised'
                   /\ response' # None
                   /\ Cardinality(PersistedRecords(files')) = 1)]_vars

\* A record was saved at the second attempt, after a write that failed and
\* left a truncated file.
C18_Witness ==
  /\ op = "save_candidate_data"
  /\ data_saved
  /\ ~raised
  /\ Len(files) = 2
  /\ ~files[1].valid
  /\ files[2].valid

\* The whole, non-empty JSON documents of the .json files of fs, in order.
RECURSIVE ReadableRecords(_)
ReadableRecords(fs) ==
  IF fs = <<>> THEN <<>>
  ELSE LET f == Head(fs)
       IN  (IF f.filename[Len(f.filename)] = ".json" /\ f.valid /\ f.value # EmptyDict
              THEN <<f.value>> ELSE <<>>)
             \o ReadableRecords(Tail(fs))

\* C19: get_all_candidates returns every readable persisted record and skips
\* each unreadable or non-matching entry: it never fails, whatever the
\* directory holds.
C19_ListingSkipsUnreadableFiles ==
  op = "get_all_candidates"
    => (~raised /\ response = ReadableRecords(files))

\* C20: the tech-stack gate accepts an input (stores it and calls the AI
\* service for questions) exactly when its trimmed form is non-empty, is not
\* all digits, holds a letter, and is not a single token of length at most 2
\* after splitting on commas and whitespace; every input these four
\* conditions accept has a trimmed length of at least 3, so the code's length
\* test rejects none of them.
C20_TechStackGate ==
  [][(op' = "process_message" /\ state = COLLECT_TECH_STACK
        /\ ~HoldsExitKeyword(user_message'))
       => LET accepted == /\ "tech_stack" \in DOMAIN candidate_data'
                          /\ Len(ai_calls') = 1
                          /\ ai_calls'[1].site = "questions"
              rejected == /\ candidate_data' = candidate_data
                          /\ ai_calls' = <<>>
                          /\ state' = COLLECT_TECH_STACK
          IN  /\ PassesRule(COLLECT_TECH_STACK, user_message') => accepted
              /\ ~PassesRule(COLLECT_TECH_STACK, user_message') => rejected
              /\ PassesRule(COLLECT_TECH_STACK, user_message')
                   => Len(strip(user_message')) >= 3]_vars

\* Two one-letter technologies, three characters in all, passed the gate.
C20_Witness ==
  /\ op = "process_message"
  /\ user_message = <<"a", ",", "C">>
  /\ candidate_data["tech_stack"] = <<"a", ",", "C">>
  /\ state = ASK_TECHNICAL_QUESTIONS

\* The characters of m that are neither whitespace nor one of - ( ) +
PhoneDigitsOf(m) ==
  SelectSeq(m, LAMBDA c : c \notin {" ", "\t", "\n", "-", "(", ")", "+"})

\* C21: validate_phone accepts an input exactly when, with every whitespace
\* character and every '-', '(', ')' and '+' removed, what remains is digits
\* only and 10 to 15 characters long; every other input, the empty one
\* included, is rejected with a non-empty error message; and COLLECT_PHONE
\* advances on exactly the accepted inputs.
C21_PhoneRule ==
  [][(op' = "process_message" /\ state = COLLECT_PHONE
        /\ ~HoldsExitKeyword(user_message'))
       => LET rest == PhoneDigitsOf(user_message')
              good == /\ \A i \in 1..Len(rest) : rest[i] \in DigitChars
                      /\ Len(rest) >= 10
                      /\ Len(rest) <= 15
              v    == validate_phone(user_message')
          IN  /\ v.is_valid <=> good
              /\ ~v.is_valid => v.error_msg # <<>>
              /\ good => (state' = COLLECT_EXPERIENCE
                          /\ candidate_data'["phone"] = strip(user_message'))
              /\ ~good => (state' = COLLECT_PHONE
                           /\ candidate_data' = candidate_data
                           /\ response' = v.error_msg
                           /\ response' # <<>>)]_vars

\* A number of 15 digits written with '+' and '-' was accepted.
C21_Witness ==
  /\ op = "process_message"
  /\ user_message = PhoneText(15, <<"+">>, <<"-">>)
  /\ Len(user_message) = 17
  /\ state = COLLECT_EXPERIENCE
  /\ candidate_data["phone"] = user_message

\* C22: in every reachable state 0 <= current_question_index <=
\* len(technical_questions); no call but reset lowers the index; the answer
\* that brings the index to the length of the list moves the state to
\* CONCLUSION; and no call in ASK_TECHNICAL_QUESTIONS raises, so no question
\* is read at an index outside the list.
C22_IndexStaysInsideList ==
  /\ [](0 <= current_question_index
          /\ current_question_index <= Len(technical_questions))
  /\ [][/\ op' # "reset" => current_question_index' >= current_question_index
        /\ (op' = "process_message" /\ state = ASK_TECHNICAL_QUESTIONS) => ~raised'
        /\ (/\ op' = "process_message"
            /\ current_question_index' # current_question_index
            /\ current_question_index' = Len(technical_questions'))
             => (state_path' # <<>> /\ state_path'[1] = CONCLUSION)]_vars

\* The fifth answer of five brought the index to the end of the list and the
\* state through CONCLUSION.
C22_Witness ==
  /\ op = "process_message"
  /\ ~HoldsExitKeyword(user_message)
  /\ Len(technical_questions) = 5
  /\ current_question_index = 5
  /\ state_path = <<CONCLUSION, ENDED>>

\* C23: within one session each field of candidate_data is written at most
\* once: a required field that holds a value holds the same value after every
\* later process_message call.
C23_FieldsWrittenOnce ==
  [][op' = "process_message"
       => \A k \in REQUIRED_FIELDS \cap DOMAIN candidate_data :
            /\ k \in DOMAIN candidate_data'
            /\ candidate_data'[k] = candidate_data[k]]_vars

\* The first at most MAX_TECHNICAL_QUESTIONS questions of a reply that lists
\* n questions, the i-th written in the i-th letter, in reply order.
FirstQuestionsOf(n) ==
  [i \in 1..(IF n < 7 THEN n ELSE 7) |->
     [technology |-> <<"AI-Generated">>,
      question   |-> [j \in 1..QuestionLen |-> LowerSeq[i]]]]

\* C24: in ASK_TECHNICAL_QUESTIONS technical_questions holds 5 to 7 entries;
\* the call that starts the interview stores the first at most 7 parsed
\* questions in reply order, or the 5 fallback questions after an AI failure;
\* and no other call but reset changes the list.
C24_QuestionListFixed ==
  /\ [](state = ASK_TECHNICAL_QUESTIONS
          => (Len(technical_questions) >= 5 /\ Len(technical_questions) <= 7))
  /\ [][/\ (op' = "process_message" /\ state # ASK_TECHNICAL_QUESTIONS
              /\ state' = ASK_TECHNICAL_QUESTIONS)
             => /\ state = COLLECT_TECH_STACK
                /\ technical_questions = <<>>
                /\ Len(ai_calls') = 1
                /\ ai_calls'[1].ok
                     => \E n \in 5..(MAX_TECHNICAL_QUESTIONS + 1) :
                          /\ ai_calls'[1].text = QuestionReply(n)
                          /\ technical_questions' = FirstQuestionsOf(n)
                /\ ~ai_calls'[1].ok
                     => (technical_questions' = FALLBACK_QUESTIONS
                         /\ Len(technical_questions') = 5)
        /\ (op' # "reset" /\ ~(state = COLLECT_TECH_STACK
                                /\ state' = ASK_TECHNICAL_QUESTIONS))
             => technical_questions' = technical_questions]_vars

\* A reply of 8 questions started the interview with its first 7, and the
\* list is the same one answer later.
C24_Witness ==
  /\ op = "process_message"
  /\ state = ASK_TECHNICAL_QUESTIONS
  /\ current_question_index = 1
  /\ Len(technical_questions) = 7
  /\ technical_questions = FirstQuestionsOf(MAX_TECHNICAL_QUESTIONS + 1)
  /\ technical_questions[7].question = [j \in 1..QuestionLen |-> "g"]

\* The value of the first of lines that carries label, in any case; default
\* when none does.
FirstLabelled(lines, label, default) ==
  LET carriers == { i \in 1..Len(lines) : contains(label, upper(lines[i])) }
  IN  IF carriers = {} THEN default
      ELSE strip(after_first(lines[MinOf(carriers)], ":"))

\* C25: the value taken for each label of an AI reply (ACKNOWLEDGMENT and
\* SCORE in an evaluation; DECISION, REASONING and MESSAGE in a decision) is
\* that of the first line carrying the label, in any case; a later line with
\* the same label never replaces it, and a label absent from the reply keeps
\* its default.
C25_FirstLabelledLineWins ==
  [][(op' = "process_message" /\ state = ASK_TECHNICAL_QUESTIONS
        /\ Len(ai_calls') = 2 /\ ai_calls'[1].ok)
       => LET lines == split_on(ai_calls'[1].text, "\n")
              qa    == candidate_data'["technical_qa"]
              ack   == FirstLabelled(lines,
                         <<"A","C","K","N","O","W","L","E","D","G","M","E","N","T",":">>,
                         <<"Thank you for your answer.">>)
              score == FirstLabelled(lines, <<"S","C","O","R","E",":">>, <<"N","/","A">>)
              dlines    == split_on(ai_calls'[2].text, "\n")
              decision  == FirstLabelled(dlines, <<"D","E","C","I","S","I","O","N",":">>,
                                         <<"S","C","R","E","E","N"," ","O","U","T">>)
              reasoning == FirstLabelled(dlines, <<"R","E","A","S","O","N","I","N","G",":">>,
                                         <<>>)
              message   == FirstLabelled(dlines, <<"M","E","S","S","A","G","E",":">>,
                                         <<"Thank you for your time.">>)
          IN  /\ qa[Len(qa)].score = score
              /\ Len(response') >= Len(ack)
              /\ SubSeq(response', 1, Len(ack)) = ack
              /\ ai_calls'[2].ok
                   => /\ candidate_data'["screening_decision"] = decision
                      /\ candidate_data'["screening_reasoning"] = reasoning
                      /\ response' = ack \o interview_summary(qa)
                                         \o get_conclusion_prompt(candidate_data'["name"],
                                                                  decision, message)]_vars

\* The entries of technical_qa whose score has the form number/10.
OutOfTen(technical_qa) ==
  { i \in 1..Len(technical_qa) :
      /\ "score" \in DOMAIN technical_qa[i]
      /\ LET parts == split_on(technical_qa[i].score, "/")
         IN  /\ Len(parts) = 2
             /\ strip(parts[2]) = <<"1","0">>
             /\ float(parts[1]).parses }

\* The sum, in thousandths, of the scores of the entries in is.
RECURSIVE SumOutOfTen(_, _)
SumOutOfTen(technical_qa, is) ==
  IF is = {} THEN 0
  ELSE LET i == CHOOSE k \in is : TRUE
       IN  float(split_on(technical_qa[i].score, "/")[1]).milli
             + SumOutOfTen(technical_qa, is \ {i})

\* C26: the average in the interview summary is the sum of the scores of
\* exactly the entries whose score has the form number/10, divided by their
\* count; when no entry qualifies the summary shows no average.
C26_AverageOverScoresOutOfTen ==
  [][(op' = "process_message" /\ state = ASK_TECHNICAL_QUESTIONS
        /\ state' = ENDED /\ Len(ai_calls') = 2 /\ ai_calls'[1].ok)
       => LET qa    == candidate_data'["technical_qa"]
              is    == OutOfTen(qa)
              shown == { p \in 1..Len(response') : response'[p] = "- Average score: " }
              avg   == format_1f(SumOutOfTen(qa, is), 1000 * Cardinality(is))
          IN  /\ ~raised'
              /\ is = {} => shown = {}
              /\ is # {} =>
                   /\ Cardinality(shown) = 1
                   /\ \A p \in shown :
                        /\ Len(response') >= p + Len(avg) + 1
                        /\ SubSeq(response', p + 1, p + Len(avg) + 1)
                             = avg \o <<"/10\n">>]_vars

\* The call sites of the AI calls of a step, in order.
SitesOf(calls) == [i \in 1..Len(calls) |-> calls[i].site]

\* C27: process_message makes no AI call on an exit keyword, in the states
\* COLLECT_NAME to COLLECT_LOCATION, on a rejected tech stack, on a ready word
\* at index 0 and in ENDED; exactly one for an accepted tech stack and for a
\* non-final answer; and at most two, the evaluation and then the decision,
\* for the final answer.
C27_AICallsPerMessage ==
  [][op' = "process_message"
       => LET m     == user_message'
              sites == SitesOf(ai_calls')
          IN  /\ HoldsExitKeyword(m) => sites = <<>>
              /\ state \in {COLLECT_NAME, COLLECT_EMAIL, COLLECT_PHONE, COLLECT_EXPERIENCE,
                            COLLECT_POSITION, COLLECT_LOCATION, ENDED}
                   => sites = <<>>
              /\ (state = COLLECT_TECH_STACK /\ ~HoldsExitKeyword(m))
                   => sites = IF PassesRule(COLLECT_TECH_STACK, m)
                                THEN <<"questions">> ELSE <<>>
              /\ (state = ASK_TECHNICAL_QUESTIONS /\ ~HoldsExitKeyword(m))
                   => IF current_question_index = 0 /\ lower(strip(m)) \in READY_WORDS
                        THEN sites = <<>>
                      ELSE IF current_question_index + 1 < Len(technical_questions)
                        THEN sites = <<"evaluation">>
                      ELSE /\ Len(sites) <= 2
                           /\ sites = SubSeq(<<"evaluation", "decision">>, 1, Len(sites))]_vars

\* The final answer made two AI calls, the evaluation failing and the decision
\* answered.
C27_Witness ==
  /\ op = "process_message"
  /\ state = ENDED
  /\ SitesOf(ai_calls) = <<"evaluation", "decision">>
  /\ ~ai_calls[1].ok
  /\ ai_calls[2].ok

\* C28: once the interview has started, technical_qa holds as many entries
\* as current_question_index counts, and the i-th entry carries the question
\* and the technology of the i-th of technical_questions.
C28_OneEntryPerQuestionInOrder ==
  "technical_qa" \in DOMAIN candidate_data
    => LET qa == candidate_data["technical_qa"]
       IN  /\ Len(qa) = current_question_index
           /\ Len(qa) <= Len(technical_questions)
           /\ \A i \in 1..Len(qa) :
                /\ qa[i].question = technical_questions[i].question
                /\ qa[i].technology = technical_questions[i].technology

\* Three answers are recorded, the second unevaluated, each against its own
\* question.
C28_Witness ==
  /\ "technical_qa" \in DOMAIN candidate_data
  /\ current_question_index = 3
  /\ Len(candidate_data["technical_qa"]) = 3
  /\ "score" \in DOMAIN candidate_data["technical_qa"][1]
  /\ "score" \notin DOMAIN candidate_data["technical_qa"][2]
  /\ candidate_data["technical_qa"][3].question = technical_questions[3].question
  /\ technical_questions[3].question # technical_questions[2].question

\* C30: in ASK_TECHNICAL_QUESTIONS with N stored questions, every
\* process_message call whose input has no exit keyword and is not a ready
\* word at index 0 raises current_question_index by exactly 1 and appends
\* exactly one entry to technical_qa, whether the evaluation call succeeds or
\* fails; the state is ENDED after the N-th such call and
\* ASK_TECHNICAL_QUESTIONS after every earlier one.
C30_EveryAnswerAdvances ==
  /\ [](state = ASK_TECHNICAL_QUESTIONS
          => current_question_index < Len(technical_questions))
  /\ [][(/\ op' = "process_message"
         /\ state = ASK_TECHNICAL_QUESTIONS
         /\ ~HoldsExitKeyword(user_message')
         /\ ~(current_question_index = 0 /\ lower(strip(user_message')) \in READY_WORDS))
          => LET qa  == candidate_data["technical_qa"]
                 qa2 == candidate_data'["technical_qa"]
             IN  /\ ~raised'
                 /\ current_question_index' = current_question_index + 1
                 /\ Len(qa2) = Len(qa) + 1
                 /\ SubSeq(qa2, 1, Len(qa)) = qa
                 /\ qa2[Len(qa2)].answer = strip(user_message')
                 /\ technical_questions' = technical_questions
                 /\ state' = IF current_question_index' = Len(technical_questions)
                               THEN ENDED ELSE ASK_TECHNICAL_QUESTIONS]_vars

\* Seven answers to seven questions, the last two with failed evaluations,
\* ended the session.
C30_Witness ==
  /\ op = "process_message"
  /\ state = ENDED
  /\ Len(technical_questions) = 7
  /\ current_question_index = 7
  /\ Len(ai_calls) = 2
  /\ ~ai_calls[1].ok
  /\ Len(candidate_data["technical_qa"]) = 7
  /\ "score" \notin DOMAIN candidate_data["technical_qa"][6]
  /\ "score" \notin DOMAIN candidate_data["technical_qa"][7]

\* C29: every question for which technical_qa holds an answer was displayed
\* to the candidate by an earlier call; no input is recorded as the answer to
\* question 1 before question 1 has been displayed.
C29_AnsweredQuestionsWereShown ==
  "technical_qa" \in DOMAIN candidate_data
    => \A i \in 1..Len(candidate_data["technical_qa"]) : i \in shown_questions

\* C32: in every COLLECT_* state an input that the state's rule accepts is
\* stored as the value of the state's field and does not end the session;
\* before the tech-stack question it moves the session to the next state.
C32_ValidInputNeverEndsSession ==
  [][(/\ op' = "process_message"
      /\ state \in CollectStates
      /\ PassesRule(state, user_message'))
     => (/\ state' # ENDED
         /\ FieldOf(state) \in DOMAIN candidate_data'
         /\ candidate_data'[FieldOf(state)] = strip(user_message')
         /\ state # COLLECT_TECH_STACK => state' = Successor(state))]_vars

\* The place of st in the order of ConversationState.
RankOf(st) == CHOOSE i \in 1..Len(ConversationState) : ConversationState[i] = st

\* C33: no call of get_greeting, process_message, is_conversation_complete or
\* get_candidate_data moves the state to an earlier state of the fixed order;
\* once the state is ENDED none of them changes it; and get_greeting changes
\* the state only when the state is GREETING.
C33_PublicCallsNeverGoBack ==
  [][op' \in {"get_greeting", "process_message", "is_conversation_complete",
              "get_candidate_data"}
       => /\ RankOf(state') >= RankOf(state)
          /\ state = ENDED => state' = ENDED
          /\ (op' = "get_greeting" /\ state # GREETING) => state' = state]_vars

\* C31: a session in which the candidate keeps typing valid inputs without
\* exit keyword (one in which ValidInput steps never cease) reaches ENDED,
\* whatever the AI service does on each call.
C31_SessionEventuallyEnds ==
  ([]<><<ValidInput>>_vars) => <>(state = ENDED)

\* The record save_candidate_data builds from a candidate_data.
RecordOf(cd) ==
  create_candidate_record(
    dict_get(cd, "name", <<>>), dict_get(cd, "email", <<>>),
    dict_get(cd, "phone", <<>>), dict_get(cd, "experience", <<>>),
    dict_get(cd, "position", <<>>), dict_get(cd, "location", <<>>),
    dict_get(cd, "tech_stack", <<>>), dict_get(cd, "technical_qa", <<>>))

\* C34: reset_conversation, from any state of a session, leaves the engine
\* in GREETING with candidate_data and technical_questions empty and
\* current_question_index 0, the transcript empty and the started and saved
\* flags false; the session that follows a reset never has more than one
\* record persisted, has exactly one, and is marked saved, after a save step
\* that ran without exception on collected data, and every record it
\* persisted is the one built from the candidate_data collected since the
\* reset, with the default for each field that was not collected.
C34_ResetStartsAFreshSession ==
  /\ [][op' = "reset"
         => (/\ state' = GREETING
             /\ candidate_data' = EmptyDict
             /\ technical_questions' = <<>>
             /\ current_question_index' = 0
             /\ messages' = <<>>
             /\ ~conversation_started'
             /\ ~data_saved')]_vars
  /\ [](/\ Cardinality(PersistedRecords(files)) <= 1
        /\ (op = "save_candidate_data" /\ ~raised /\ "name" \in DOMAIN candidate_data)
             => (data_saved /\ Cardinality(PersistedRecords(files)) = 1)
        /\ \A i \in PersistedRecords(files) :
             \E now \in Timestamps :
               files[i].value = dict_set(RecordOf(candidate_data), "submission_time", now))

\* A session begun after a reset was greeted, ended by "exit" once the name
\* was collected, and was saved: its one record has the name and the
\* default for the e-mail address.
C34_Witness ==
  /\ op = "save_candidate_data"
  /\ conversation_started
  /\ messages # <<>>
  /\ state = ENDED
  /\ data_saved
  /\ Cardinality(PersistedRecords(files)) = 1
  /\ DOMAIN candidate_data = {"name"}
  /\ \A i \in PersistedRecords(files) :
       files[i].value["name"] = candidate_data["name"] /\ files[i].value["email"] = <<>>

=============================================================================
